---- MODULE Spec2Model ----
(***************************************************************************)
(* Model of the mixins of mcp_atlassian:                                   *)
(*   CommentsMixin (jira/comments.py): get_issue_comments, add_comment     *)
(*   WorklogMixin  (jira/worklog.py):  _parse_time_spent, get_worklog,     *)
(*                                     get_worklog_models, get_worklogs    *)
(*   PagesMixin    (confluence/pages.py): the page operations              *)
(* Python strings that the code inspects character by character (the       *)
(* visibility argument, the time_spent argument) are sequences of          *)
(* one-character strings; strings the code only passes on (issue keys,     *)
(* comment texts) are atoms.  The client and the preprocessor are inputs:  *)
(* each operation is given what they return or raise.                      *)
(***************************************************************************)
EXTENDS Integers, Sequences, FiniteSets, TLC

VARIABLES
    force,      \* config.force_internal_comments
    last,       \* record of the last add_comment invocation (inputs, calls, outcome)
    nCalls,     \* number of add_comment invocations made so far
    time_spent, \* the argument of _parse_time_spent, and how it was built
    pc,         \* "idle", or the position of the _parse_time_spent call
    parsed,     \* what _parse_time_spent returned or raised
    invoked,    \* record of the last operation invoked (name, requests, outcome)
    history     \* one summary per add_comment invocation of a sequence, in order

vars == <<force, last, nCalls, time_spent, pc, parsed, invoked, history>>

\* Bound on the number of add_comment invocations in one behaviour.
MaxCalls == 2
\* Bound on the number of comments in a response of jira.issue_get_comments.
MaxComments == 3
\* Bound on the number of ancestors of a page.
MaxAncestors == 3
\* Every string of at most MaxLen characters of ParseChars is parsed.
MaxLen == 3
\* Durations of at most MaxComps <integer><unit> components are parsed,
\* with integers 0..MaxVal.
MaxComps == 3
MaxVal == 3

(***************************************************************************)
(* Python values                                                           *)
(***************************************************************************)
\* An absent dictionary key (dict.get falls back to its default).
MISSING == "<missing>"
\* Python's None where the model keeps it in a string-valued field.
NONE == "<None>"

\* visibility: str | None
NoneVis == [isNone |-> TRUE, s |-> <<>>]
StrVis(s) == [isNone |-> FALSE, s |-> s]

UpperChars == <<"A","B","C","D","E","F","G","H","I","J","K","L","M",
                "N","O","P","Q","R","S","T","U","V","W","X","Y","Z">>
LowerChars == <<"a","b","c","d","e","f","g","h","i","j","k","l","m",
                "n","o","p","q","r","s","t","u","v","w","x","y","z">>

\* str.lower() on one character: an upper-case letter maps to its lower-case
\* letter, every other character is unchanged.
LowerChar(c) ==
    IF \E i \in 1..26 : UpperChars[i] = c
    THEN LowerChars[CHOOSE i \in 1..26 : UpperChars[i] = c]
    ELSE c

\* Mutant of Lower: the comparison is made on the string as given.
Lower_as_given(s) == s

\* str.lower()
Lower(s) == [i \in 1..Len(s) |-> LowerChar(s[i])]

INTERNAL == <<"i","n","t","e","r","n","a","l">>
PUBLIC == <<"p","u","b","l","i","c">>

\* A string with the letters at the positions in m upper-cased.
UpperChar(c) ==
    IF \E i \in 1..26 : LowerChars[i] = c
    THEN UpperChars[CHOOSE i \in 1..26 : LowerChars[i] = c]
    ELSE c
CaseVariants(w) ==
    { [i \in 1..Len(w) |-> IF i \in m THEN UpperChar(w[i]) ELSE w[i]] :
        m \in SUBSET (1..Len(w)) }

(***************************************************************************)
(* Collaborators of CommentsMixin: the text preprocessor, the Jira client, *)
(* _clean_text and parse_date.  Their results are inputs of the model.     *)
(***************************************************************************)
\* What preprocessor.markdown_to_jira does when called: return a text or raise.
ConvReturn(t) == [kind |-> "return", value |-> t]
ConvRaise == [kind |-> "raise", value |-> "conversion failed"]

\* What the client's creating request does: return a dict, return something
\* that is not a dict, or raise.
AuthorDict(name) == [kind |-> "dict", displayName |-> name]
AuthorMissing == [kind |-> "missing", displayName |-> MISSING]
AuthorNull == [kind |-> "null", displayName |-> MISSING]
RespDict(id, body, created, author) ==
    [kind |-> "dict", id |-> id, body |-> body, created |-> created,
     author |-> author, exc |-> NONE]
RespNonDict ==
    [kind |-> "nondict", id |-> MISSING, body |-> MISSING, created |-> MISSING,
     author |-> AuthorMissing, exc |-> NONE]
RespRaise(msg) ==
    [kind |-> "raise", id |-> MISSING, body |-> MISSING, created |-> MISSING,
     author |-> AuthorMissing, exc |-> msg]

\* Mutant of Get: no default stands in for a missing field.
Get_without_default(v, default) == v

\* dict.get(key, default) on a field of a response dict
Get(v, default) == IF v = MISSING THEN default ELSE v

\* JiraClient._clean_text: the cleaned form of a text; the empty text stays
\* empty.
_clean_text(t) == IF t = "" THEN "" ELSE "clean(" \o t \o ")"

\* str(parse_date(x))
parse_date_str(x) == <<"date", x>>

\* jira.resource_url(resource)
resource_url(resource) == <<"rest/api/2", resource>>

(***************************************************************************)
(* CommentsMixin._markdown_to_jira                                         *)
(***************************************************************************)
\* Mutant of _markdown_to_jira: a failed conversion leaves the empty text.
_markdown_to_jira_empty_on_error(markdown_text, conv) ==
    IF markdown_text = "" THEN ""
    ELSE IF conv.kind = "return" THEN conv.value
    ELSE ""

\* The text returned for markdown_text when the preprocessor behaves as conv.
_markdown_to_jira(markdown_text, conv) ==
    IF markdown_text = "" THEN ""
    ELSE IF conv.kind = "return" THEN conv.value
    ELSE markdown_text

\* Mutant of _markdown_to_jira_calls: the preprocessor is called for every text.
_markdown_to_jira_calls_always(markdown_text) ==
    << [fn |-> "markdown_to_jira", arg |-> markdown_text] >>

\* The preprocessor calls _markdown_to_jira makes.
_markdown_to_jira_calls(markdown_text) ==
    IF markdown_text = "" THEN <<>>
    ELSE << [fn |-> "markdown_to_jira", arg |-> markdown_text] >>

(***************************************************************************)
(* CommentsMixin.add_comment                                               *)
(***************************************************************************)
\* Mutant of should_be_internal: an explicit value is looked at before the flag.
should_be_internal_explicit_first(forceFlag, visibility) ==
    IF ~visibility.isNone /\ Lower(visibility.s) = PUBLIC THEN FALSE
    ELSE IF ~visibility.isNone /\ Lower(visibility.s) = INTERNAL THEN TRUE
    ELSE forceFlag \/ ~visibility.isNone

\* Mutant of should_be_internal: the flag only decides when no value is given.
should_be_internal_flag_as_default(forceFlag, visibility) ==
    IF visibility.isNone THEN forceFlag
    ELSE Lower(visibility.s) # PUBLIC

\* Mutant of should_be_internal: without the flag, no value means internal.
should_be_internal_none_internal(forceFlag, visibility) ==
    IF forceFlag THEN TRUE
    ELSE IF visibility.isNone THEN TRUE
    ELSE Lower(visibility.s) # PUBLIC

\* Mutant of should_be_internal: an unrecognised value falls back to public.
should_be_internal_fail_open(forceFlag, visibility) ==
    IF forceFlag THEN TRUE
    ELSE IF visibility.isNone THEN FALSE
    ELSE Lower(visibility.s) = INTERNAL

\* should_be_internal, lines 76-87
should_be_internal(forceFlag, visibility) ==
    IF forceFlag THEN TRUE
    ELSE IF visibility.isNone THEN FALSE
    ELSE IF Lower(visibility.s) = INTERNAL THEN TRUE
    ELSE IF Lower(visibility.s) = PUBLIC THEN FALSE
    ELSE TRUE

\* Mutant of comment_data: the payload carries the body only.
comment_data_no_property(jira_formatted_comment) ==
    [body |-> jira_formatted_comment, properties |-> <<>>]

\* comment_data, lines 92-100
comment_data(jira_formatted_comment) ==
    [body |-> jira_formatted_comment,
     properties |-> << [key |-> "sd.public.comment",
                        value |-> [internal |-> TRUE]] >>]

\* url, lines 103-104: f"{base_url}/{issue_key}/comment"
comment_url(issue_key) == <<resource_url("issue"), "/", issue_key, "/comment">>

\* Mutant of posting_calls: an internal comment is also posted the standard way.
posting_calls_both(internal, issue_key, jira_formatted_comment) ==
    IF internal
    THEN << [fn |-> "resource_url", arg |-> <<"issue">>],
            [fn |-> "post",
             arg |-> <<comment_url(issue_key), comment_data(jira_formatted_comment)>>],
            [fn |-> "issue_add_comment",
             arg |-> <<issue_key, jira_formatted_comment>>] >>
    ELSE << [fn |-> "issue_add_comment",
             arg |-> <<issue_key, jira_formatted_comment>>] >>

\* Mutant of posting_calls: an empty internal comment goes the standard way.
posting_calls_by_text(internal, issue_key, jira_formatted_comment) ==
    IF internal /\ jira_formatted_comment # ""
    THEN << [fn |-> "resource_url", arg |-> <<"issue">>],
            [fn |-> "post",
             arg |-> <<comment_url(issue_key), comment_data(jira_formatted_comment)>>] >>
    ELSE << [fn |-> "issue_add_comment",
             arg |-> <<issue_key, jira_formatted_comment>>] >>

\* The client calls of the posting step, lines 90-108.
posting_calls(internal, issue_key, jira_formatted_comment) ==
    IF internal
    THEN << [fn |-> "resource_url", arg |-> <<"issue">>],
            [fn |-> "post",
             arg |-> <<comment_url(issue_key), comment_data(jira_formatted_comment)>>] >>
    ELSE << [fn |-> "issue_add_comment",
             arg |-> <<issue_key, jira_formatted_comment>>] >>

\* The returned dict, lines 115-120.
mapped_comment(result) ==
    [id |-> Get(result.id, NONE),
     body |-> _clean_text(Get(result.body, "")),
     created |-> parse_date_str(Get(result.created, NONE)),
     author |-> IF result.author.kind = "missing" THEN "Unknown"
                ELSE Get(result.author.displayName, "Unknown")]

NoComment == [id |-> NONE, body |-> NONE, created |-> <<>>, author |-> NONE]

Returned(value) == [kind |-> "return", value |-> value, msg |-> <<>>, cause |-> NONE]
\* raise Exception(f"Error adding comment: {str(e)}") from e, lines 121-123
Raised(e) ==
    [kind |-> "raise", value |-> NoComment, msg |-> <<"Error adding comment: ", e>>,
     cause |-> e]

\* The outcome of add_comment once the creating request has behaved as resp.
add_comment_outcome(resp) ==
    IF resp.kind = "raise" THEN Raised(resp.exc)
    ELSE IF resp.kind # "dict"
    THEN Raised("Unexpected return value type from comment API")
    ELSE IF resp.author.kind = "null"
    THEN Raised("'NoneType' object has no attribute 'get'")
    ELSE Returned(mapped_comment(resp))

\* One invocation of add_comment: the collaborator calls it makes, in order,
\* and its outcome.
add_comment(forceFlag, issue_key, comment, visibility, conv, resp) ==
    LET jira_formatted_comment == _markdown_to_jira(comment, conv)
        internal == should_be_internal(forceFlag, visibility)
    IN [called |-> TRUE,
        force |-> forceFlag,
        issue_key |-> issue_key,
        comment |-> comment,
        visibility |-> visibility,
        conv |-> conv,
        resp |-> resp,
        converted |-> jira_formatted_comment,
        calls |-> _markdown_to_jira_calls(comment)
                  \o posting_calls(internal, issue_key, jira_formatted_comment),
        outcome |-> add_comment_outcome(resp)]

(***************************************************************************)
(* Python's int() and float() on strings                                   *)
(***************************************************************************)
Digits == <<"0","1","2","3","4","5","6","7","8","9">>
IsDigit(c) == \E i \in 1..10 : Digits[i] = c
DigitVal(c) == (CHOOSE i \in 1..10 : Digits[i] = c) - 1

\* The number a string of decimal digits denotes (0 for the empty string).
RECURSIVE DecVal(_)
DecVal(ds) ==
    IF ds = <<>> THEN 0
    ELSE 10 * DecVal(SubSeq(ds, 1, Len(ds) - 1)) + DigitVal(ds[Len(ds)])

(***************************************************************************)
(* Natural numbers of any size, as sequences of decimal digits 0..9 without *)
(* leading zeros (the empty sequence is 0)                                   *)
(***************************************************************************)
DigitVals(ds) == [i \in 1..Len(ds) |-> DigitVal(ds[i])]
Zeros(n) == [i \in 1..n |-> 0]
IsZero(ns) == \A i \in 1..Len(ns) : ns[i] = 0
IsOdd(ns) == ns # <<>> /\ ns[Len(ns)] % 2 = 1

RECURSIVE StripZeros(_)
StripZeros(ns) == IF ns # <<>> /\ ns[1] = 0 THEN StripZeros(Tail(ns)) ELSE ns

\* The value of a digit sequence short enough for a machine integer.
RECURSIVE NumVal(_)
NumVal(ns) ==
    IF ns = <<>> THEN 0 ELSE 10 * NumVal(SubSeq(ns, 1, Len(ns) - 1)) + ns[Len(ns)]

\* a < b for sequences of equal length, digit by digit.
RECURSIVE LexLess(_, _)
LexLess(a, b) ==
    /\ a # <<>>
    /\ \/ a[1] < b[1]
       \/ a[1] = b[1] /\ LexLess(Tail(a), Tail(b))

\* a < b for numbers without leading zeros.
Less(a, b) == Len(a) < Len(b) \/ (Len(a) = Len(b) /\ LexLess(a, b))

\* The digits of the machine integer n >= 0.
RECURSIVE DigitsOf(_)
DigitsOf(n) == IF n = 0 THEN <<>> ELSE DigitsOf(n \div 10) \o << n % 10 >>

\* ns div d for a small d, digit by digit from the left with the remainder
\* carried on; the result keeps the length of ns.
RECURSIVE DivDigits(_, _, _)
DivDigits(ns, d, carry) ==
    IF ns = <<>> THEN <<>>
    ELSE LET x == 10 * carry + ns[1]
         IN << x \div d >> \o DivDigits(Tail(ns), d, x % d)

\* ns mod d for a small d.
RECURSIVE ModDigits(_, _, _)
ModDigits(ns, d, carry) ==
    IF ns = <<>> THEN carry ELSE ModDigits(Tail(ns), d, (10 * carry + ns[1]) % d)

\* f * ns + carry for a small f, digit by digit from the right.
RECURSIVE MulDigits(_, _, _)
MulDigits(ns, f, carry) ==
    IF ns = <<>> THEN DigitsOf(carry)
    ELSE LET x == f * ns[Len(ns)] + carry
         IN MulDigits(SubSeq(ns, 1, Len(ns) - 1), f, x \div 10) \o << x % 10 >>

RECURSIVE Increment(_)
Increment(ns) ==
    IF ns = <<>> THEN << 1 >>
    ELSE IF ns[Len(ns)] < 9
    THEN SubSeq(ns, 1, Len(ns) - 1) \o << ns[Len(ns)] + 1 >>
    ELSE Increment(SubSeq(ns, 1, Len(ns) - 1)) \o << 0 >>

\* ns * 2^k for k < 80, sixteen binary places at a time.
Times2To(ns, k) ==
    LET low == MulDigits(ns, 2^(k % 16), 0)
        P(x) == MulDigits(x, 65536, 0)
    IN CASE k \div 16 = 0 -> low
         [] k \div 16 = 1 -> P(low)
         [] k \div 16 = 2 -> P(P(low))
         [] k \div 16 = 3 -> P(P(P(low)))
         [] OTHER -> P(P(P(P(low))))
TwoTo(k) == Times2To(<< 1 >>, k)

\* ns div 2^k for k <= 16.
Quotient(ns, k) == StripZeros(DivDigits(ns, 2^k, 0))

\* The number of binary digits of ns < 2^53.
BitLen(ns) ==
    CHOOSE b \in 0..53 : Less(ns, TwoTo(b)) /\ (b = 0 \/ ~Less(ns, TwoTo(b - 1)))

(***************************************************************************)
(* IEEE 754 binary64, as far as int(float(text)) depends on it              *)
(***************************************************************************)
\* 2^53: a double has 53 significant binary digits.
TwoTo53 == <<9,0,0,7,1,9,9,2,5,4,7,4,0,9,9,2>>
\* 2^69: the digits of an integer are followed up to here.
TwoTo69 == <<5,9,0,2,9,5,8,1,0,3,5,8,7,0,5,6,5,1,7,1,2>>
\* The first twenty digits of 2^1024 - 2^970 (a 309-digit number): a literal of
\* that magnitude or more is read as infinity.
InfinityLead == <<1,7,9,7,6,9,3,1,3,4,8,6,2,3,1,5,8,0,7,9>>

\* An integer 2^53 <= w < 2^69 with a fraction (sticky: it is not zero)
\* rounded to 53 significant bits, ties to even: the k low bits of w are
\* dropped, and the 53 bits kept go up by one when the part dropped is more
\* than half a unit of the last bit kept, or is exactly half and that bit is 1.
RoundToDouble(w, sticky) ==
    LET k == CHOOSE j \in 1..16 : /\ Less(Quotient(w, j), TwoTo53)
                                  /\ ~Less(Quotient(w, j - 1), TwoTo53)
        kept == Quotient(w, k)
        dropped == ModDigits(w, 2^k, 0)
        half == 2^(k - 1)
        up == dropped > half \/ (dropped = half /\ (sticky \/ IsOdd(kept)))
    IN Times2To(IF up THEN Increment(kept) ELSE kept, k)

\* Whether the first n binary digits of the fraction 0.frac are all 1 (all),
\* and the fraction that is left behind them (rest): 0.frac * 2^n has those n
\* digits before the point.
LeadingOnes(frac, n) ==
    LET y == Times2To(frac, n)
        top == SubSeq(y, 1, Len(y) - Len(frac))
    IN [all |-> Increment(top) = TwoTo(n),
        rest |-> SubSeq(y, Len(y) - Len(frac) + 1, Len(y))]

\* Mutant of IntOfDouble: the value is rounded to the nearest integer.
IntOfDouble_nearest(whole, frac) ==
    IF frac # <<>> /\ frac[1] >= 5 THEN Increment(whole) ELSE whole

\* int(x) for the double x nearest to whole.frac, whole < 2^69: the double
\* keeps 53 binary digits from the leading one on, so below 2^53 the integer
\* part survives and the fraction can only carry into it; from 2^53 on the low
\* bits are rounded.
IntOfDouble(whole, frac) ==
    IF ~Less(whole, TwoTo53) THEN RoundToDouble(whole, ~IsZero(frac))
    ELSE LET m == 53 - BitLen(whole)
             ones == LeadingOnes(frac, m + 1)
             up == ones.all /\ (m > 0 \/ ~IsZero(ones.rest) \/ IsOdd(whole))
         IN IF up THEN Increment(whole) ELSE whole

\* str.strip(): int() and float() ignore surrounding whitespace.
RECURSIVE Strip(_)
Strip(t) ==
    IF t = <<>> THEN t
    ELSE IF t[1] = " " THEN Strip(Tail(t))
    ELSE IF t[Len(t)] = " " THEN Strip(SubSeq(t, 1, Len(t) - 1))
    ELSE t

HasSign(t) == t # <<>> /\ t[1] \in {"+", "-"}
Unsigned(t) == IF HasSign(t) THEN Tail(t) ELSE t
IsNegative(t) == t # <<>> /\ t[1] = "-"

\* digitpart: digits, with single underscores allowed between two digits.
IsDigitPart(t) ==
    /\ t # <<>>
    /\ IsDigit(t[1]) /\ IsDigit(t[Len(t)])
    /\ \A i \in 1..Len(t) : IsDigit(t[i]) \/ t[i] = "_"
    /\ \A i \in 1..(Len(t) - 1) : ~(t[i] = "_" /\ t[i + 1] = "_")
WithoutUnderscores(t) == SelectSeq(t, LAMBDA c : c # "_")

\* int(t): the integer, or ValueError (ok = FALSE).
PyInt(t) ==
    LET u == Strip(t)
        body == Unsigned(u)
    IN IF IsDigitPart(body)
       THEN [ok |-> TRUE,
             val |-> IF IsNegative(u) THEN 0 - DecVal(WithoutUnderscores(body))
                     ELSE DecVal(WithoutUnderscores(body))]
       ELSE [ok |-> FALSE, val |-> 0]

\* The index of the first character of t in cs, Len(t) + 1 if there is none.
RECURSIVE FirstIndex(_, _, _)
FirstIndex(t, cs, i) ==
    IF i > Len(t) \/ t[i] \in cs THEN i ELSE FirstIndex(t, cs, i + 1)

\* float(t): ok = FALSE for ValueError; otherwise kind is "inf", "nan" or
\* "fin", and a finite value is (-1)^neg * whole.frac, both digit sequences
\* (exact for literals of at most twenty significant digits).
PyFloat(t) ==
    LET u == Strip(t)
        neg == IsNegative(u)
        body == Unsigned(u)
        word == Lower(body)
        e == FirstIndex(body, {"e", "E"}, 1)
        mpart == SubSeq(body, 1, e - 1)
        epart == SubSeq(body, e + 1, Len(body))
        dot == FirstIndex(mpart, {"."}, 1)
        ipart == SubSeq(mpart, 1, dot - 1)
        fpart == SubSeq(mpart, dot + 1, Len(mpart))
        mantOk ==
            IF dot > Len(mpart) THEN IsDigitPart(ipart)
            ELSE /\ ipart = <<>> \/ IsDigitPart(ipart)
                 /\ fpart = <<>> \/ IsDigitPart(fpart)
                 /\ ipart # <<>> \/ fpart # <<>>
        expOk == e > Len(body) \/ IsDigitPart(Unsigned(epart))
        fdigits == WithoutUnderscores(fpart)
        expVal == IF e > Len(body) THEN 0
                  ELSE IF IsNegative(epart)
                       THEN 0 - DecVal(WithoutUnderscores(Unsigned(epart)))
                       ELSE DecVal(WithoutUnderscores(Unsigned(epart)))
        none == [ok |-> FALSE, kind |-> "none", neg |-> FALSE,
                 whole |-> <<>>, frac |-> <<>>]
        special(kind) == [ok |-> TRUE, kind |-> kind, neg |-> neg,
                          whole |-> <<>>, frac |-> <<>>]
    IN IF word \in { <<"i","n","f">>, <<"i","n","f","i","n","i","t","y">> }
       THEN special("inf")
       ELSE IF word = <<"n","a","n">>
       THEN special("nan")
       ELSE IF mantOk /\ expOk
       THEN LET \* the significant digits and the place of the decimal point
                sig == StripZeros(DigitVals(WithoutUnderscores(ipart) \o fdigits))
                \* the value is sig * 10^(mag - Len(sig)), below 10^mag
                mag == Len(WithoutUnderscores(ipart)) + expVal
                         - (Len(WithoutUnderscores(ipart)) + Len(fdigits) - Len(sig))
                lead == SubSeq(sig \o Zeros(20), 1, 20)
            IN IF sig = <<>> \/ mag < 0
               THEN \* zero, or below 0.1
                    [ok |-> TRUE, kind |-> "fin", neg |-> neg,
                     whole |-> <<>>, frac |-> <<>>]
               ELSE IF mag > 309 \/ (mag = 309 /\ LexLess(InfinityLead, lead))
               THEN \* beyond the largest double: the literal rounds to infinity
                    special("inf")
               ELSE [ok |-> TRUE, kind |-> "fin", neg |-> neg,
                     whole |-> SubSeq(sig \o Zeros(mag), 1, mag),
                     frac |-> SubSeq(sig, mag + 1, Len(sig))]
       ELSE none

(***************************************************************************)
(* WorklogMixin._parse_time_spent                                          *)
(***************************************************************************)
IntResult(n) == [kind |-> "int", val |-> n, exc |-> NONE]
\* An integer of ten or more decimal digits, kept as sign and digits.
BigIntResult(neg, digits) ==
    [kind |-> "bigint", val |-> 0, exc |-> NONE, neg |-> neg, digits |-> digits]
\* An integer of magnitude 2^69 or more: only its sign is followed.
HugeIntResult(neg) == [kind |-> "hugeint", val |-> 0, exc |-> NONE, neg |-> neg]
RaiseResult(e) == [kind |-> "raise", val |-> 0, exc |-> e]

\* time_units, lines 35-40
time_units == [w |-> 7 * 24 * 60 * 60, d |-> 24 * 60 * 60, h |-> 60 * 60, m |-> 60]
Units == {"w", "d", "h", "m"}

\* The index after the run of digits that starts at i.
RECURSIVE DigitRunEnd(_, _)
DigitRunEnd(t, i) ==
    IF i > Len(t) \/ ~IsDigit(t[i]) THEN i ELSE DigitRunEnd(t, i + 1)

\* Mutant of findall: a digit run with no unit after it ends the scan.
RECURSIVE findall_until_unmatched(_, _)
findall_until_unmatched(t, i) ==
    IF i > Len(t) THEN <<>>
    ELSE IF ~IsDigit(t[i]) THEN findall_until_unmatched(t, i + 1)
    ELSE LET j == DigitRunEnd(t, i)
         IN IF j <= Len(t) /\ t[j] \in Units
            THEN << <<SubSeq(t, i, j - 1), t[j]>> >>
                 \o findall_until_unmatched(t, j + 1)
            ELSE <<>>

\* re.findall(r"(\d+)([wdhm])", t) from position i on: the leftmost
\* non-overlapping matches; a digit run not followed by a unit matches nothing.
RECURSIVE findall(_, _)
findall(t, i) ==
    IF i > Len(t) THEN <<>>
    ELSE IF ~IsDigit(t[i]) THEN findall(t, i + 1)
    ELSE LET j == DigitRunEnd(t, i)
         IN IF j <= Len(t) /\ t[j] \in Units
            THEN << <<SubSeq(t, i, j - 1), t[j]>> >> \o findall(t, j + 1)
            ELSE findall(t, j)

\* Mutant of total_seconds: a later component of a unit replaces an earlier one.
RECURSIVE total_seconds_override(_)
total_seconds_override(matches) ==
    IF matches = <<>> THEN 0
    ELSE LET rest == Tail(matches)
         IN IF \E k \in 1..Len(rest) : rest[k][2] = matches[1][2]
            THEN total_seconds_override(rest)
            ELSE DecVal(matches[1][1]) * time_units[matches[1][2]]
                 + total_seconds_override(rest)

\* The loop of lines 46-49.
RECURSIVE total_seconds(_)
total_seconds(matches) ==
    IF matches = <<>> THEN 0
    ELSE DecVal(matches[1][1]) * time_units[matches[1][2]]
         + total_seconds(Tail(matches))

\* int(float(t)), lines 53-60: the nearest double, truncated toward zero;
\* NaN raises ValueError, which is caught and gives 60; infinity raises
\* OverflowError, which is not.
numeric_fallback(t) ==
    LET f == PyFloat(t)
    IN IF ~f.ok THEN IntResult(60)
       ELSE IF f.kind = "nan" THEN IntResult(60)
       ELSE IF f.kind = "inf" THEN RaiseResult("OverflowError")
       ELSE IF ~Less(f.whole, TwoTo69) THEN HugeIntResult(f.neg)
       ELSE LET digits == IntOfDouble(f.whole, f.frac)
            IN IF Len(digits) > 9 THEN BigIntResult(f.neg, digits)
               ELSE IntResult(IF f.neg THEN 0 - NumVal(digits) ELSE NumVal(digits))

\* Mutant of unit_scan: the fallback is taken when nothing matched.
unit_scan_no_match(t) ==
    IF findall(t, 1) = <<>> THEN numeric_fallback(t)
    ELSE IntResult(total_seconds(findall(t, 1)))

\* Lines 34-62: the unit scan, then the numeric fallback and the default.
unit_scan(t) ==
    LET total == total_seconds(findall(t, 1))
    IN IF total = 0 THEN numeric_fallback(t) ELSE IntResult(total)

\* Mutant of seconds_suffix: the suffix is not looked at.
seconds_suffix_ignored(t) == [ok |-> FALSE, val |-> 0]

\* Lines 28-32: int(time_spent[:-1]) when the string ends in "s".
seconds_suffix(t) ==
    IF t # <<>> /\ t[Len(t)] = "s"
    THEN PyInt(SubSeq(t, 1, Len(t) - 1))
    ELSE [ok |-> FALSE, val |-> 0]

_parse_time_spent(t) ==
    IF seconds_suffix(t).ok THEN IntResult(seconds_suffix(t).val)
    ELSE unit_scan(t)

(***************************************************************************)
(* Exceptions, client responses and the outcome of an operation            *)
(***************************************************************************)
\* An exception: its class, str(e) as pieces of text, the status code of the
\* response an HTTPError carries (0: response is None), and its __cause__.
Exc(type, msg) == [type |-> type, msg |-> msg, status |-> 0, cause |-> <<>>]
HTTPError(status) ==
    [type |-> "HTTPError", msg |-> <<"HTTP error">>, status |-> status,
     cause |-> <<>>]
\* raise type(msg) from e
RaiseFrom(type, msg, e) ==
    [type |-> type, msg |-> msg, status |-> 0, cause |-> << e >>]

\* What a client request does: it returns value, or raises the exception.
Ok(value) == [kind |-> "ok", value |-> value]
Err(e) == [kind |-> "err", value |-> e]

\* What an operation does: it returns value, or raises the exception.
Return(value) == [kind |-> "return", value |-> value]
Raise(e) == [kind |-> "raise", value |-> e]

\* A response dict with a list under its key, without the key, and a response
\* that is no dict.
ListDict(items) == [kind |-> "dict", has |-> TRUE, items |-> items]
EmptyDict == [kind |-> "dict", has |-> FALSE, items |-> <<>>]
NonDict == [kind |-> "nondict", has |-> FALSE, items |-> <<>>]

\* comment.get("author", {}).get("displayName", "Unknown")
author_name(author) ==
    IF author.kind = "missing" THEN "Unknown"
    ELSE Get(author.displayName, "Unknown")

\* None.get(...) on an author that is null
NoneHasNoGet == Exc("AttributeError", <<"'NoneType' object has no attribute 'get'">>)

(***************************************************************************)
(* CommentsMixin.get_issue_comments                                        *)
(***************************************************************************)
CommentJson(id, body, created, updated, author) ==
    [id |-> id, body |-> body, created |-> created, updated |-> updated,
     author |-> author]

\* seq[:limit]: the first limit elements, all of them when there are fewer;
\* a negative limit counts from the end (all but the last -limit).
SliceTo(seq, limit) ==
    LET n == Len(seq)
        stop == IF limit >= 0
                THEN (IF limit < n THEN limit ELSE n)
                ELSE (IF n + limit > 0 THEN n + limit ELSE 0)
    IN SubSeq(seq, 1, stop)

\* Mutant of processed_comment: the record has no 'updated'.
processed_comment_without_updated(comment) ==
    [id |-> Get(comment.id, NONE),
     body |-> _clean_text(Get(comment.body, "")),
     created |-> parse_date_str(Get(comment.created, NONE)),
     author |-> author_name(comment.author)]

\* processed_comment, lines 41-47
processed_comment(comment) ==
    [id |-> Get(comment.id, NONE),
     body |-> _clean_text(Get(comment.body, "")),
     created |-> parse_date_str(Get(comment.created, NONE)),
     updated |-> parse_date_str(Get(comment.updated, NONE)),
     author |-> author_name(comment.author)]

\* Mutant of wrapped: the original exception is raised as it is.
wrapped_not(prefix, e) == Raise(e)

\* except Exception as e: raise Exception(f"<prefix>{str(e)}") from e
wrapped(prefix, e) == Raise(RaiseFrom("Exception", << prefix >> \o e.msg, e))

\* Lines 31-53, once jira.issue_get_comments has behaved as resp.
get_issue_comments(issue_key, limit, resp) ==
    LET prefix == "Error getting comments: "
        selected == SliceTo(resp.value.items, limit)
    IN [calls |-> << [fn |-> "issue_get_comments", arg |-> << issue_key >>] >>,
        outcome |->
            IF resp.kind = "err" THEN wrapped(prefix, resp.value)
            ELSE IF resp.value.kind # "dict"
            THEN wrapped(prefix, Exc("TypeError",
                     <<"Unexpected return value type from `jira.issue_get_comments`: ",
                       "<class 'list'>">>))
            ELSE IF \E i \in 1..Len(selected) : selected[i].author.kind = "null"
            THEN wrapped(prefix, NoneHasNoGet)
            ELSE Return([i \in 1..Len(selected) |-> processed_comment(selected[i])])]

(***************************************************************************)
(* WorklogMixin.get_worklog, get_worklog_models, get_worklogs              *)
(***************************************************************************)
\* timeSpentSeconds is << >> when the record lacks it, << n >> otherwise.
WorklogJson(id, comment, created, updated, started, timeSpent, timeSpentSeconds, author) ==
    [id |-> id, comment |-> comment, created |-> created, updated |-> updated,
     started |-> started, timeSpent |-> timeSpent,
     timeSpentSeconds |-> timeSpentSeconds, author |-> author]

\* The dict appended in lines 123-136.
worklog_entry(worklog) ==
    [id |-> Get(worklog.id, NONE),
     comment |-> _clean_text(Get(worklog.comment, "")),
     created |-> parse_date_str(Get(worklog.created, "")),
     updated |-> parse_date_str(Get(worklog.updated, "")),
     started |-> parse_date_str(Get(worklog.started, "")),
     timeSpent |-> Get(worklog.timeSpent, ""),
     timeSpentSeconds |-> IF worklog.timeSpentSeconds = <<>> THEN 0
                          ELSE worklog.timeSpentSeconds[1],
     author |-> author_name(worklog.author)]

\* Mutant of get_worklogs: a failure of the client gives the empty list.
get_worklogs_swallowing(issue_key, resp) ==
    [calls |-> << [fn |-> "issue_get_worklog", arg |-> << issue_key >>] >>,
     outcome |-> Return(<<>>)]

\* Lines 112-141, once jira.issue_get_worklog has behaved as resp.
get_worklogs(issue_key, resp) ==
    LET prefix == "Error getting worklogs: "
        items == resp.value.items
    IN [calls |-> << [fn |-> "issue_get_worklog", arg |-> << issue_key >>] >>,
        outcome |->
            IF resp.kind = "err" THEN wrapped(prefix, resp.value)
            ELSE IF resp.value.kind # "dict"
            THEN wrapped(prefix, Exc("TypeError",
                     <<"Unexpected return value type from `jira.issue_get_worklog`: ",
                       "<class 'list'>">>))
            ELSE IF \E i \in 1..Len(items) : items[i].author.kind = "null"
            THEN wrapped(prefix, NoneHasNoGet)
            ELSE Return([i \in 1..Len(items) |-> worklog_entry(items[i])])]

\* Lines 74-78, once jira.worklog has behaved as resp: the raw data, and
\* {"worklogs": []} when the request raised.
get_worklog(issue_key, resp) ==
    [calls |-> << [fn |-> "worklog", arg |-> << issue_key >>] >>,
     outcome |-> IF resp.kind = "err" THEN Return(ListDict(<<>>))
                 ELSE Return(resp.value)]

\* JiraWorklog.from_api_response(log_data)
JiraWorklog(log_data) == [model |-> "JiraWorklog", data |-> log_data]

\* Lines 90-98: the models of the worklogs get_worklog returns.
get_worklog_models(issue_key, resp) ==
    LET worklog_data == get_worklog(issue_key, resp).outcome.value
    IN [calls |-> get_worklog(issue_key, resp).calls,
        outcome |-> Return([i \in 1..Len(worklog_data.items) |->
                               JiraWorklog(worklog_data.items[i])])]

(***************************************************************************)
(* Collaborators of PagesMixin                                             *)
(***************************************************************************)
\* A page as the Confluence client reports it: space and body are MISSING when
\* the dict lacks them; NoPage is a response that is None.
PageJson(id, title, space, body) ==
    [kind |-> "dict", id |-> id, title |-> title, space |-> space, body |-> body]
NoPage == [kind |-> "none", id |-> MISSING, title |-> MISSING, space |-> MISSING,
           body |-> MISSING]

\* ConfluencePage.from_api_response(data, include_body=..., content_override=...,
\* content_format=...)
ConfluencePage(data, include_body, content_override, content_format) ==
    [id |-> Get(data.id, NONE),
     title |-> Get(data.title, ""),
     space_key |-> Get(data.space, ""),
     content |-> IF include_body THEN content_override ELSE "",
     content_format |-> content_format]

\* preprocessor.process_html_content(content, space_key): (html, markdown)
process_html_content(content) ==
    [html |-> "html(" \o content \o ")", markdown |-> "markdown(" \o content \o ")"]
\* preprocessor.markdown_to_confluence_storage(body)
markdown_to_confluence_storage(body) == "storage(" \o body \o ")"
\* What a preprocessor call raises when it fails.
PreprocessorError == Exc("ValueError", <<"conversion failed">>)

\* page["body"]["storage"]["value"] on a page without body
NoBodyKey == Exc("KeyError", <<"'body'">>)

(***************************************************************************)
(* PagesMixin.get_page_content                                             *)
(***************************************************************************)
AuthenticationMessage(status) ==
    <<"Authentication failed for Confluence API (",
      IF status = 401 THEN "401" ELSE "403",
      "). Token may be expired or invalid. Please verify credentials.">>

\* except HTTPError as http_err, lines 59-72 and 109-122: an authentication
\* error for a response with status 401 or 403, the HTTPError itself otherwise.
http_error_outcome(http_err) ==
    IF http_err.status \in {401, 403}
    THEN Raise(RaiseFrom("MCPAtlassianAuthenticationError",
                         AuthenticationMessage(http_err.status), http_err))
    ELSE Raise(http_err)

\* raise Exception(f"<prefix>{str(e)}") from e, the prefix in pieces
failed(prefix, e) == Raise(RaiseFrom("Exception", prefix \o e.msg, e))

\* Lines 36-77, once confluence.get_page_by_id has behaved as resp and the
\* preprocessor succeeds (procOk) or raises: the requests made and the outcome.
get_page_content(page_id, convert_to_markdown, resp, procOk) ==
    LET prefix == <<"Error retrieving page content: ">>
        page == resp.value
        processed == process_html_content(page.body)
        page_content == IF convert_to_markdown THEN processed.markdown
                        ELSE processed.html
    IN [calls |-> << [fn |-> "get_page_by_id",
                      arg |-> <<page_id, "body.storage,version,space,children.attachment">>] >>,
        outcome |->
            IF resp.kind = "err"
            THEN IF resp.value.type = "HTTPError" THEN http_error_outcome(resp.value)
                 ELSE failed(prefix, resp.value)
            ELSE IF page.kind # "dict" THEN failed(prefix, NoneHasNoGet)
            ELSE IF page.body = MISSING THEN failed(prefix, NoBodyKey)
            ELSE IF ~procOk THEN failed(prefix, PreprocessorError)
            ELSE Return(ConfluencePage(page, TRUE, page_content,
                            IF convert_to_markdown THEN "markdown" ELSE "storage"))]

(***************************************************************************)
(* PagesMixin.get_page_ancestors                                           *)
(***************************************************************************)
\* Lines 93-126, once confluence.get_page_ancestors has behaved as resp.
get_page_ancestors(page_id, resp) ==
    LET ancestors == resp.value
    IN [calls |-> << [fn |-> "get_page_ancestors", arg |-> << page_id >>] >>,
        outcome |->
            IF resp.kind = "err"
            THEN IF resp.value.type = "HTTPError" THEN http_error_outcome(resp.value)
                 ELSE Return(<<>>)
            ELSE Return([i \in 1..Len(ancestors) |->
                            ConfluencePage(ancestors[i], FALSE, "", "view")])]

(***************************************************************************)
(* PagesMixin.get_page_by_title                                            *)
(***************************************************************************)
\* Lines 142-198, once confluence.get_all_spaces and confluence.get_page_by_title
\* have behaved as spaces and resp.  The value returned is << >> for None and
\* << page >> for a page; spaces.value is the list of the keys of the spaces.
get_page_by_title(space_key, title, convert_to_markdown, spaces, resp, procOk) ==
    LET page == resp.value
        found == spaces.kind = "ok"
                     /\ \E i \in 1..Len(spaces.value) : spaces.value[i] = space_key
        processed == process_html_content(page.body)
        page_content == IF convert_to_markdown THEN processed.markdown
                        ELSE processed.html
    IN [calls |-> << [fn |-> "get_all_spaces", arg |-> <<0, 500>>] >>
                  \o (IF found
                      THEN << [fn |-> "get_page_by_title",
                               arg |-> <<space_key, title, "body.storage,version">>] >>
                      ELSE <<>>),
        outcome |->
            IF ~found \/ resp.kind = "err" THEN Return(<<>>)
            ELSE IF page.kind # "dict" THEN Return(<<>>)
            ELSE IF page.body = MISSING THEN Return(<<>>)
            ELSE IF ~procOk THEN Return(<<>>)
            ELSE Return(<< ConfluencePage(page, TRUE, page_content,
                               IF convert_to_markdown THEN "markdown" ELSE "storage") >>)]

(***************************************************************************)
(* PagesMixin.get_space_pages                                              *)
(***************************************************************************)
\* Lines 225-255, once confluence.get_all_pages_from_space has behaved as resp:
\* nothing is caught.
get_space_pages(space_key, start, limit, convert_to_markdown, resp, procOk) ==
    LET pages == resp.value
        model(page) ==
            LET processed == process_html_content(page.body)
            IN ConfluencePage([page EXCEPT !.space = Get(page.space, space_key)],
                              TRUE,
                              IF convert_to_markdown THEN processed.markdown
                              ELSE processed.html,
                              IF convert_to_markdown THEN "markdown" ELSE "storage")
    IN [calls |-> << [fn |-> "get_all_pages_from_space",
                      arg |-> <<space_key, start, limit, "body.storage">>] >>,
        outcome |->
            IF resp.kind = "err" THEN Raise(resp.value)
            ELSE IF \E i \in 1..Len(pages) : pages[i].body = MISSING
            THEN Raise(NoBodyKey)
            ELSE IF pages # <<>> /\ ~procOk THEN Raise(PreprocessorError)
            ELSE Return([i \in 1..Len(pages) |-> model(pages[i])])]

(***************************************************************************)
(* PagesMixin.create_page and update_page                                  *)
(***************************************************************************)
\* Mutant of NoId: every response counts as carrying an id.
NoId_never(id) == FALSE

\* Mutant of NoId: only a response without the key has no id.
NoId_missing_only(id) == id = MISSING

\* not page_id, for the value of result.get("id")
NoId(id) == id \in {MISSING, NONE, ""}

\* Lines 280-311, once the preprocessor succeeds (convOk) or raises on the
\* body, confluence.create_page has behaved as created, and the request of
\* get_page_content as resp.
create_page(space_key, title, body, parent_id, is_markdown, convOk, created, resp, procOk) ==
    LET prefix == <<"Failed to create page '", title, "' in space ", space_key, ": ">>
        storage_body == IF is_markdown THEN markdown_to_confluence_storage(body)
                        ELSE body
        converted == ~is_markdown \/ convOk
        page_id == created.value.id
        got_id == converted /\ created.kind = "ok" /\ created.value.kind = "dict"
                      /\ ~NoId(page_id)
        content == get_page_content(page_id, TRUE, resp, procOk)
    IN [calls |-> (IF converted
                   THEN << [fn |-> "create_page",
                            arg |-> <<space_key, title, storage_body, parent_id,
                                      "storage">>] >>
                   ELSE <<>>)
                  \o (IF got_id THEN content.calls ELSE <<>>),
        outcome |->
            IF ~converted THEN failed(prefix, PreprocessorError)
            ELSE IF created.kind = "err" THEN failed(prefix, created.value)
            ELSE IF created.value.kind # "dict" THEN failed(prefix, NoneHasNoGet)
            ELSE IF NoId(page_id)
            THEN failed(prefix, Exc("ValueError",
                                    <<"Create page response did not contain an ID">>))
            ELSE IF content.outcome.kind = "raise"
            THEN failed(prefix, content.outcome.value)
            ELSE content.outcome]

\* update_kwargs, lines 343-355: parent_id only when it is given and not empty.
update_kwargs(page_id, title, storage_body, is_minor_edit, version_comment, parent_id) ==
    [page_id |-> page_id, title |-> title, body |-> storage_body,
     type |-> "page", representation |-> "storage", minor_edit |-> is_minor_edit,
     version_comment |-> version_comment, always_update |-> TRUE,
     parent_id |-> IF parent_id \in {NONE, ""} THEN <<>> ELSE << parent_id >>]

\* Lines 333-371, once the preprocessor succeeds (convOk) or raises on the
\* body, confluence.update_page has behaved as updated, and the request of
\* get_page_content as resp.
update_page(page_id, title, body, is_minor_edit, version_comment, is_markdown, parent_id, convOk, updated, resp, procOk) ==
    LET prefix == <<"Failed to update page ", page_id, ": ">>
        storage_body == IF is_markdown THEN markdown_to_confluence_storage(body)
                        ELSE body
        converted == ~is_markdown \/ convOk
        content == get_page_content(page_id, TRUE, resp, procOk)
    IN [calls |-> (IF converted
                   THEN << [fn |-> "update_page",
                            arg |-> << update_kwargs(page_id, title, storage_body,
                                           is_minor_edit, version_comment,
                                           parent_id) >>] >>
                   ELSE <<>>)
                  \o (IF converted /\ updated.kind = "ok" THEN content.calls
                      ELSE <<>>),
        outcome |->
            IF ~converted THEN failed(prefix, PreprocessorError)
            ELSE IF updated.kind = "err" THEN failed(prefix, updated.value)
            ELSE IF content.outcome.kind = "raise"
            THEN failed(prefix, content.outcome.value)
            ELSE content.outcome]

(***************************************************************************)
(* PagesMixin.get_page_children                                            *)
(***************************************************************************)
\* Lines 398-445, once confluence.get_page_child_by_type has behaved as resp
\* (resp.value is the list of the child pages): every exception gives [].
get_page_children(page_id, start, limit, expand, convert_to_markdown, resp, procOk) ==
    LET child_pages == resp.value
        processes(page) == convert_to_markdown /\ page.body \notin {MISSING, ""}
        model(page) ==
            ConfluencePage(page, TRUE,
                           IF processes(page)
                           THEN process_html_content(page.body).markdown
                           ELSE NONE,
                           IF convert_to_markdown THEN "markdown" ELSE "storage")
    IN [calls |-> << [fn |-> "get_page_child_by_type",
                      arg |-> <<page_id, "page", start, limit, expand>>] >>,
        outcome |->
            IF resp.kind = "err" THEN Return(<<>>)
            ELSE IF ~procOk /\ \E i \in 1..Len(child_pages) : processes(child_pages[i])
            THEN Return(<<>>)
            ELSE Return([i \in 1..Len(child_pages) |-> model(child_pages[i])])]

(***************************************************************************)
(* Inputs of add_comment                                                   *)
(***************************************************************************)
IssueKeys == {"TEST-123", "PROJ-1"}
CommentTexts == {"", "Test **comment**"}
ConvOutcomes == {ConvReturn("*This* is _Jira_ formatted"), ConvRaise}
Responses ==
    { RespDict("10001", "This is a comment", "2024-01-01T10:00:00.000+0000",
               AuthorDict("John Doe")),
      RespDict("10002", MISSING, MISSING, AuthorMissing),
      RespDict("10003", "body", MISSING, AuthorNull),
      RespNonDict,
      RespRaise("API Error") }

\* Visibility strings that are neither 'internal' nor 'public' in any letter case.
OtherVisStrings ==
    { <<>>,
      <<"p","r","i","v","a","t","e">>,
      <<"p","u","b","l","i">>,
      <<"p","u","b","l","i","c"," ">>,
      <<"P","U","B","L","I","C","S">>,
      <<"e","x","t","e","r","n","a","l">>,
      <<"n","o","n","e">> }
\* A few letter-case variants of the two recognised values.
SomeVisStrings ==
    { INTERNAL, PUBLIC,
      <<"I","N","T","E","R","N","A","L">>, <<"I","n","t","e","r","n","a","l">>,
      <<"P","U","B","L","I","C">>, <<"P","u","b","l","i","c">>,
      <<"p","u","b","l","i","C">> }
Visibilities == {NoneVis} \cup {StrVis(v) : v \in SomeVisStrings \cup OtherVisStrings}
\* Every letter-case variant of 'internal' and of 'public'.
VariantVisibilities == {StrVis(v) : v \in CaseVariants(INTERNAL) \cup CaseVariants(PUBLIC)}

NotCalled ==
    [called |-> FALSE, force |-> FALSE, issue_key |-> NONE, comment |-> "",
     visibility |-> NoneVis, conv |-> ConvRaise, resp |-> RespNonDict,
     converted |-> "", calls |-> <<>>, outcome |-> Returned(NoComment)]

(***************************************************************************)
(* State machine of the comment operations                                 *)
(***************************************************************************)
NotInvoked == [op |-> "none", calls |-> <<>>]
\* The record of an invocation: the operation and its arguments, how the
\* client and the preprocessor behaved (env), and what the operation did.
Invocation(op, args, env, did) ==
    [op |-> op, args |-> args, env |-> env, calls |-> did.calls,
     outcome |-> did.outcome]
NotBuilt(t) == [s |-> t, built |-> FALSE, comps |-> <<>>]
NotParsed == [kind |-> "none", val |-> 0, exc |-> NONE]
parserVars == <<time_spent, pc, parsed>>
commentVars == <<force, last, nCalls>>

Init ==
    /\ force \in BOOLEAN
    /\ last = NotCalled
    /\ nCalls = 0
    /\ time_spent = NotBuilt(<<>>)
    /\ pc = "idle"
    /\ parsed = NotParsed
    /\ invoked = NotInvoked
    /\ history = <<>>

\* The deployment sets config.force_internal_comments.
Configure ==
    /\ force' = ~force
    /\ UNCHANGED <<last, nCalls, parserVars, invoked, history>>

\* add_comment(issue_key, comment, visibility)
AddComment ==
    /\ nCalls < MaxCalls
    /\ \E issue_key \in IssueKeys, comment \in CommentTexts,
          visibility \in Visibilities, resp \in Responses :
          \* the preprocessor is only consulted for a non-empty comment
          \E conv \in IF comment = "" THEN {ConvRaise} ELSE ConvOutcomes :
              last' = add_comment(force, issue_key, comment, visibility, conv, resp)
    /\ nCalls' = nCalls + 1
    /\ UNCHANGED <<force, parserVars, invoked, history>>

\* add_comment(issue_key, comment, visibility) over every letter-case variant
\* of the two recognised visibility values.
AddCommentVariant ==
    /\ nCalls < MaxCalls
    /\ \E visibility \in VariantVisibilities,
          resp \in {r \in Responses : r.author.kind = "dict" \/ r.kind = "raise"} :
          last' = add_comment(force, "TEST-123", "Test **comment**", visibility,
                              ConvReturn("*This* is _Jira_ formatted"), resp)
    /\ nCalls' = nCalls + 1
    /\ UNCHANGED <<force, parserVars, invoked, history>>

Next == Configure \/ AddComment
Spec == Init /\ [][Next]_vars

NextVariants == Configure \/ AddCommentVariant
SpecVariants == Init /\ [][NextVariants]_vars

(***************************************************************************)
(* Sequences of add_comment calls on one mixin                             *)
(***************************************************************************)
CallVisibilities ==
    { NoneVis, StrVis(INTERNAL), StrVis(<<"P","u","b","l","i","c">>),
      StrVis(<<"p","r","i","v","a","t","e">>) }

\* What is kept of one invocation: the flag it read, its arguments, the
\* collaborator functions it called, in order, whether the creating request
\* came back from the client (the comment exists on the issue) and whether
\* add_comment raised.
Summary(r) ==
    [force |-> r.force, visibility |-> r.visibility, issue_key |-> r.issue_key,
     comment |-> r.comment,
     fns |-> [i \in 1..Len(r.calls) |-> r.calls[i].fn],
     completed |-> r.resp.kind # "raise",
     raised |-> r.outcome.kind = "raise"]

\* add_comment(issue_key, comment, visibility), one more call of a sequence.
AddCommentCall ==
    /\ Len(history) < MaxCalls
    /\ \E issue_key \in IssueKeys, comment \in CommentTexts,
          visibility \in CallVisibilities, resp \in Responses :
          \E conv \in IF comment = "" THEN {ConvRaise} ELSE ConvOutcomes :
              history' = Append(history,
                  Summary(add_comment(force, issue_key, comment, visibility, conv, resp)))
    /\ UNCHANGED <<commentVars, parserVars, invoked>>

NextCalls == Configure \/ AddCommentCall
SpecCalls == Init /\ [][NextCalls]_vars

(***************************************************************************)
(* Calls of _parse_time_spent                                              *)
(***************************************************************************)
ParseChars ==
    {"0", "1", "2", "9", "w", "d", "h", "m", "s", " ", "-", ".", "e", "x"}

\* Every string over ParseChars of at most MaxLen characters.
ShortStrings == UNION { [1..n -> ParseChars] : n \in 0..MaxLen }

\* The durations of the tests and of the specification, and strings that
\* int() and float() read in their less usual forms.
ExampleStrings ==
    { <<"1","w"," ","2","d"," ","3","h"," ","4","m">>,
      <<"1","h"," ","3","0","m">>,
      <<"1","d"," ","6","h">>,
      <<"1","h"," ","1","h">>,
      <<"0","w"," ","0","d">>,
      <<"i","n","v","a","l","i","d">>,
      <<"3","6","0","0","s">>,
      <<"3","6","0","0">>,
      <<"9","0",".","7">>,
      <<"-","9","0",".","7">>,
      <<"1","h"," ","x","y","z">>,
      <<"1","h"," ","3","0">>,
      <<"1","h"," ","3","0","s">>,
      <<"i","n","f">>, <<"-","i","n","f">>, <<"I","n","f","i","n","i","t","y">>,
      <<"n","a","n">>, <<"N","a","N">>,
      <<"i","n","f","s">>, <<"n","a","n","s">>,
      <<"1","e","9","9","9">>, <<"1","e","3","0","8">>, <<"2","e","3","0","8">>,
      <<"1","E","2">>, <<"1",".","5","e","1">>, <<"1","e","-","9","9","9">>,
      <<"1","e","1","2">>,
      <<"1","_","0">>, <<"1","_","0","s">>, <<"1","_","_","0">>,
      <<"+","5">>, <<"+","5","s">>, <<" ","5"," ","s">>, <<"-"," ","5","s">>,
      <<"1","0","0","d","0","m">>,
      <<"-","5","s">>, <<"-","5">>,
      <<"6","0">>, <<"0","0","9","0">>, <<"9","0",".">>, <<".","7">>,
      <<"-","0",".","5">>,
      <<"1","2","3","4","5","6","7","8","9","0","1","2","3","4","5">>,
      <<"9","9","9","9","9","9","9","9","9","9","9","9","9","9",".","9">>,
      <<"9","0","0","7","1","9","9","2","5","4","7","4","0","9","9","3">>,
      <<"0",".","9","9","9","9","9","9","9","9","9","9","9","9","9","9","9","9","9">>,
      <<"4","5","0","3","5","9","9","6","2","7","3","7","0","4","9","7",".","5">> }

Component(value, unit) == [value |-> value, unit |-> unit]
Components == { Component(v, u) : v \in 0..MaxVal, u \in Units }
ExampleDurations ==
    { << Component(1, "w"), Component(2, "d"), Component(3, "h"), Component(4, "m") >>,
      << Component(4, "m"), Component(3, "h"), Component(2, "d"), Component(1, "w") >>,
      << Component(1, "h"), Component(30, "m") >>,
      << Component(30, "m"), Component(1, "h") >>,
      << Component(12, "d"), Component(0, "w") >> }
Durations ==
    UNION { [1..n -> Components] : n \in 1..MaxComps } \cup ExampleDurations

\* The decimal digits of n >= 0.
RECURSIVE IntToDigits(_)
IntToDigits(n) ==
    IF n < 10 THEN << Digits[n + 1] >>
    ELSE IntToDigits(n \div 10) \o << Digits[(n % 10) + 1] >>

\* The duration string of the components, sep between two of them.
RECURSIVE Render(_, _)
Render(comps, sep) ==
    IF comps = <<>> THEN <<>>
    ELSE IntToDigits(comps[1].value) \o << comps[1].unit >>
         \o (IF Len(comps) > 1 THEN sep ELSE <<>>)
         \o Render(Tail(comps), sep)

Built(comps, sep) == [s |-> Render(comps, sep), built |-> TRUE, comps |-> comps]

\* Text that holds no <integer><unit> component: letters, a bare number,
\* punctuation, a seconds component, a unit letter with no integer before it.
LeadingTexts == { <<>>, <<"x","y","z"," ">>, <<"-">>, <<"1",".">> }
BetweenTexts == { <<" ","x","y","z"," ">>, <<" ","3","0"," ">>, <<"_">> }
TrailingTexts ==
    { <<>>, <<" ","x","y","z">>, <<" ","3","0">>, <<" ","3","0","s">>, <<"s">> }
\* A duration of at most two components with such text before, between and
\* after them.
Padded(lead, comps, sep, trail) ==
    [s |-> lead \o Render(comps, sep) \o trail, built |-> FALSE, comps |-> comps]
PaddedDurations == { d \in Durations : Len(d) <= 2 }

InitParse ==
    /\ force = FALSE
    /\ last = NotCalled
    /\ nCalls = 0
    /\ \/ \E t \in ShortStrings \cup ExampleStrings : time_spent = NotBuilt(t)
       \/ \E comps \in Durations, sep \in { <<>>, <<" ">> } :
              time_spent = Built(comps, sep)
       \/ \E comps \in PaddedDurations, lead \in LeadingTexts,
             sep \in BetweenTexts, trail \in TrailingTexts :
              time_spent = Padded(lead, comps, sep, trail)
    /\ pc = "call"
    /\ parsed = NotParsed
    /\ invoked = NotInvoked
    /\ history = <<>>

\* _parse_time_spent(time_spent)
ParseTimeSpent ==
    /\ pc = "call"
    /\ parsed' = _parse_time_spent(time_spent.s)
    /\ pc' = "done"
    /\ UNCHANGED <<time_spent, commentVars, invoked, history>>

NextParse == ParseTimeSpent
SpecParse == InitParse /\ [][NextParse]_vars

(***************************************************************************)
(* Inputs of the read operations and of the page operations                *)
(***************************************************************************)
\* What a request can raise: HTTP errors with a response of some status or
\* without a response, a network error that is no HTTPError, anything else.
ClientErrors ==
    { HTTPError(401), HTTPError(403), HTTPError(404), HTTPError(500), HTTPError(0),
      Exc("ConnectionError", <<"Connection refused">>),
      Exc("Exception", <<"API Error">>) }
\* In the place of the behaviour of a request that is not made.
NotRequested == [kind |-> "none", value |-> <<>>]

\* The sequences of at most n different elements of S.
RECURSIVE Arrangements(_, _)
Arrangements(S, n) ==
    IF n = 0 THEN { <<>> }
    ELSE LET shorter == Arrangements(S, n - 1)
         IN shorter \cup
            { Append(q[1], q[2]) :
                q \in { r \in shorter \X S :
                          Len(r[1]) = n - 1 /\ \A i \in 1..Len(r[1]) : r[1][i] # r[2] } }

SomeDate == "2024-01-01T10:00:00.000+0000"
CommentIds == <<"10001", "10002", "10003", "10004", "10005">>
FullComment(i) ==
    CommentJson(CommentIds[i], "This is a comment", SomeDate, SomeDate,
                AuthorDict("John Doe"))
Authors == { AuthorDict("John Doe"), AuthorDict(MISSING), AuthorMissing, AuthorNull }
\* Comments that lack some of their fields.
SparseComments ==
    { CommentJson(id, body, date, date, author) :
        id \in {"10009"}, body \in {"This is a comment", "", MISSING},
        date \in {SomeDate, MISSING}, author \in Authors }
    \cup { CommentJson(MISSING, MISSING, MISSING, MISSING, AuthorMissing) }
\* The lists of at most MaxComments different comments, in every order, and
\* lists with a comment that lacks fields, alone or behind a full one.
CommentLists ==
    { [i \in 1..Len(q) |-> FullComment(q[i])] :
        q \in Arrangements(1..MaxComments, MaxComments) }
    \cup { << c >> : c \in SparseComments }
    \cup { << FullComment(1), c >> : c \in SparseComments }
CommentResponses ==
    { Err(e) : e \in ClientErrors } \cup { Ok(NonDict), Ok(EmptyDict) }
    \cup { Ok(ListDict(l)) : l \in CommentLists }
\* limit: the default, and every value around the lengths of the lists
Limits == { 50 } \cup ((0 - (MaxComments + 1))..(MaxComments + 1))

SparseWorklogs ==
    { WorklogJson("100023", comment, date, date, date, timeSpent, seconds, author) :
        comment \in {"Test comment", MISSING}, date \in {SomeDate, MISSING},
        timeSpent \in {"1h", MISSING}, seconds \in { <<3600>>, <<>> },
        author \in Authors }
    \cup { WorklogJson(MISSING, MISSING, MISSING, MISSING, MISSING, MISSING, <<>>,
                       AuthorMissing) }
FullWorklog ==
    WorklogJson("100024", "Other comment", SomeDate, SomeDate, SomeDate, "30m",
                <<1800>>, AuthorDict("Jane Doe"))
WorklogLists ==
    { <<>>, << FullWorklog >> } \cup { << w >> : w \in SparseWorklogs }
    \cup { << FullWorklog, w >> : w \in SparseWorklogs }
WorklogResponses ==
    { Err(e) : e \in ClientErrors } \cup { Ok(NonDict), Ok(EmptyDict) }
    \cup { Ok(ListDict(l)) : l \in WorklogLists }
RawWorklogResponses ==
    { Err(e) : e \in ClientErrors } \cup { Ok(EmptyDict) }
    \cup { Ok(ListDict(l)) : l \in { <<>>, << FullWorklog >>,
                                     << FullWorklog, FullWorklog >> } }

SomePage == PageJson("123", "Test Page", "TEST", "<p>Hello</p>")
Pages ==
    { SomePage,
      PageJson("123", "Test Page", MISSING, "<p>Hello</p>"),
      PageJson("123", "Test Page", "TEST", MISSING),
      NoPage }
PageResponses == { Err(e) : e \in ClientErrors } \cup { Ok(page) : page \in Pages }

\* The ancestors of the page, the immediate parent first and the root last.
AncestorChain ==
    << PageJson("500", "Parent", "TEST", MISSING),
       PageJson("400", "Chapter", "TEST", MISSING),
       PageJson("300", "Part", "TEST", MISSING),
       PageJson("200", "Book", "TEST", MISSING),
       PageJson("100", "Home", "TEST", MISSING) >>
Reverse(seq) == [i \in 1..Len(seq) |-> seq[Len(seq) + 1 - i]]
\* The last n ancestors up to the root, the nearest of them first.
Ancestry(n) == SubSeq(AncestorChain, Len(AncestorChain) - n + 1, Len(AncestorChain))
\* The client reports the ancestors of a page at depth n from the root down
\* to the parent, as the REST API lists them, or from the parent up.
AncestorResponses ==
    { Err(e) : e \in ClientErrors }
    \cup { Ok(Ancestry(n)) : n \in 0..MaxAncestors }
    \cup { Ok(Reverse(Ancestry(n))) : n \in 0..MaxAncestors }

SpaceResponses ==
    { Err(e) : e \in ClientErrors }
    \cup { Ok(<<"TEST", "DEV">>), Ok(<<"DEV">>), Ok(<<>>) }
PageLists ==
    { <<>>, << SomePage >>,
      << SomePage, PageJson("124", "Other Page", MISSING, "<p>Other</p>") >>,
      << SomePage, PageJson("125", "Empty Page", "TEST", "") >>,
      << PageJson("126", "Bare Page", "TEST", MISSING) >> }
PageListResponses ==
    { Err(e) : e \in ClientErrors } \cup { Ok(l) : l \in PageLists }

\* The response of confluence.create_page and update_page: a dict with or
\* without an id, or None.
WriteJson(id) == [kind |-> "dict", id |-> id]
NoResult == [kind |-> "none", id |-> MISSING]
CreateResponses ==
    { Err(e) : e \in ClientErrors }
    \cup { Ok(WriteJson("123")), Ok(WriteJson("")), Ok(WriteJson(MISSING)), Ok(NoResult) }
UpdateResponses ==
    { Err(e) : e \in ClientErrors } \cup { Ok(WriteJson("123")), Ok(NoResult) }

(***************************************************************************)
(* State machine of one invocation of an operation                         *)
(***************************************************************************)
otherVars == <<commentVars, parserVars, history>>

\* add_comment(issue_key, comment, visibility)
AddCommentOp ==
    /\ invoked.op = "none"
    /\ \E comment \in CommentTexts,
          visibility \in {NoneVis, StrVis(INTERNAL), StrVis(PUBLIC),
                          StrVis(<<"p","r","i","v","a","t","e">>)},
          resp \in Responses :
          \E conv \in IF comment = "" THEN {ConvRaise} ELSE ConvOutcomes :
              invoked' = Invocation("add_comment",
                             [issue_key |-> "TEST-123", comment |-> comment,
                              visibility |-> visibility],
                             [force |-> force, conv |-> conv, resp |-> resp],
                             add_comment(force, "TEST-123", comment, visibility,
                                         conv, resp))
    /\ UNCHANGED otherVars

\* get_issue_comments(issue_key, limit)
GetIssueComments ==
    /\ invoked.op = "none"
    /\ \E limit \in Limits, resp \in CommentResponses :
          invoked' = Invocation("get_issue_comments",
                         [issue_key |-> "TEST-123", limit |-> limit],
                         [resp |-> resp],
                         get_issue_comments("TEST-123", limit, resp))
    /\ UNCHANGED otherVars

\* get_worklogs(issue_key)
GetWorklogs ==
    /\ invoked.op = "none"
    /\ \E resp \in WorklogResponses :
          invoked' = Invocation("get_worklogs", [issue_key |-> "TEST-123"],
                         [resp |-> resp], get_worklogs("TEST-123", resp))
    /\ UNCHANGED otherVars

\* get_worklog(issue_key)
GetWorklog ==
    /\ invoked.op = "none"
    /\ \E resp \in RawWorklogResponses :
          invoked' = Invocation("get_worklog", [issue_key |-> "TEST-123"],
                         [resp |-> resp], get_worklog("TEST-123", resp))
    /\ UNCHANGED otherVars

\* get_worklog_models(issue_key)
GetWorklogModels ==
    /\ invoked.op = "none"
    /\ \E resp \in RawWorklogResponses :
          invoked' = Invocation("get_worklog_models", [issue_key |-> "TEST-123"],
                         [resp |-> resp], get_worklog_models("TEST-123", resp))
    /\ UNCHANGED otherVars

\* get_page_content(page_id, convert_to_markdown=...)
GetPageContent ==
    /\ invoked.op = "none"
    /\ \E convert_to_markdown \in BOOLEAN, resp \in PageResponses, procOk \in BOOLEAN :
          invoked' = Invocation("get_page_content",
                         [page_id |-> "123",
                          convert_to_markdown |-> convert_to_markdown],
                         [resp |-> resp, procOk |-> procOk],
                         get_page_content("123", convert_to_markdown, resp, procOk))
    /\ UNCHANGED otherVars

\* get_page_ancestors(page_id)
GetPageAncestors ==
    /\ invoked.op = "none"
    /\ \E resp \in AncestorResponses :
          invoked' = Invocation("get_page_ancestors", [page_id |-> "123"],
                         [resp |-> resp], get_page_ancestors("123", resp))
    /\ UNCHANGED otherVars

\* get_page_by_title(space_key, title, convert_to_markdown=...)
GetPageByTitle ==
    /\ invoked.op = "none"
    /\ \E convert_to_markdown \in BOOLEAN, spaces \in SpaceResponses,
          procOk \in BOOLEAN :
          \* the page is only asked for in a space that was found
          \E resp \in IF spaces.kind = "ok"
                         /\ \E i \in 1..Len(spaces.value) : spaces.value[i] = "TEST"
                      THEN PageResponses ELSE {NotRequested} :
              invoked' = Invocation("get_page_by_title",
                             [space_key |-> "TEST", title |-> "Test Page",
                              convert_to_markdown |-> convert_to_markdown],
                             [spaces |-> spaces, resp |-> resp, procOk |-> procOk],
                             get_page_by_title("TEST", "Test Page",
                                 convert_to_markdown, spaces, resp, procOk))
    /\ UNCHANGED otherVars

\* get_space_pages(space_key, start, limit, convert_to_markdown=...)
GetSpacePages ==
    /\ invoked.op = "none"
    /\ \E convert_to_markdown \in BOOLEAN, resp \in PageListResponses,
          procOk \in BOOLEAN :
          invoked' = Invocation("get_space_pages",
                         [space_key |-> "TEST",
                          convert_to_markdown |-> convert_to_markdown],
                         [resp |-> resp, procOk |-> procOk],
                         get_space_pages("TEST", 0, 10, convert_to_markdown, resp,
                                         procOk))
    /\ UNCHANGED otherVars

\* create_page(space_key, title, body, parent_id, is_markdown=...)
CreatePage ==
    /\ invoked.op = "none"
    /\ \E parent_id \in {NONE, "456"}, is_markdown \in BOOLEAN,
          created \in CreateResponses, procOk \in BOOLEAN :
          \* the preprocessor is only consulted for markdown, and the page is
          \* only read back under the id of a page that was created
          \E convOk \in IF is_markdown THEN BOOLEAN ELSE {TRUE} :
          \E resp \in IF convOk /\ created.kind = "ok" /\ ~NoId(created.value.id)
                      THEN PageResponses ELSE {NotRequested} :
              invoked' = Invocation("create_page",
                             [space_key |-> "TEST", title |-> "New Page",
                              parent_id |-> parent_id, is_markdown |-> is_markdown],
                             [convOk |-> convOk, created |-> created, resp |-> resp,
                              procOk |-> procOk],
                             create_page("TEST", "New Page", "# Hello", parent_id,
                                 is_markdown, convOk, created, resp, procOk))
    /\ UNCHANGED otherVars

\* update_page(page_id, title, body, is_minor_edit=..., version_comment=...,
\* is_markdown=..., parent_id=...)
UpdatePage ==
    /\ invoked.op = "none"
    /\ \E parent_id \in {NONE, "", "456"}, is_markdown \in BOOLEAN,
          updated \in UpdateResponses, procOk \in BOOLEAN :
          \E convOk \in IF is_markdown THEN BOOLEAN ELSE {TRUE} :
          \E resp \in IF convOk /\ updated.kind = "ok"
                      THEN PageResponses ELSE {NotRequested} :
              invoked' = Invocation("update_page",
                             [page_id |-> "123", title |-> "New Title",
                              parent_id |-> parent_id, is_markdown |-> is_markdown],
                             [convOk |-> convOk, updated |-> updated, resp |-> resp,
                              procOk |-> procOk],
                             update_page("123", "New Title", "# Hello", FALSE, "",
                                 is_markdown, parent_id, convOk, updated, resp,
                                 procOk))
    /\ UNCHANGED otherVars

\* get_page_children(page_id, start, limit, expand, convert_to_markdown=...)
GetPageChildren ==
    /\ invoked.op = "none"
    /\ \E convert_to_markdown \in BOOLEAN, resp \in PageListResponses,
          procOk \in BOOLEAN :
          invoked' = Invocation("get_page_children",
                         [page_id |-> "123",
                          convert_to_markdown |-> convert_to_markdown],
                         [resp |-> resp, procOk |-> procOk],
                         get_page_children("123", 0, 25, "version",
                                           convert_to_markdown, resp, procOk))
    /\ UNCHANGED otherVars

NextOps ==
    \/ AddCommentOp
    \/ GetIssueComments
    \/ GetWorklogs
    \/ GetWorklog
    \/ GetWorklogModels
    \/ GetPageContent
    \/ GetPageAncestors
    \/ GetPageByTitle
    \/ GetSpacePages
    \/ CreatePage
    \/ UpdatePage
    \/ GetPageChildren
SpecOps == Init /\ [][NextOps]_vars

(***************************************************************************)
(* Observations on one invocation                                          *)
(***************************************************************************)
\* The calls of the invocation to the function fn, in order.
CallsTo(inv, fn) == SelectSeq(inv.calls, LAMBDA c : c.fn = fn)

\* The invocation posted through the direct request carrying the internal property.
PostedInternal(inv) ==
    /\ Len(CallsTo(inv, "post")) = 1
    /\ CallsTo(inv, "post")[1].arg[2].properties
         = << [key |-> "sd.public.comment", value |-> [internal |-> TRUE]] >>
    /\ Len(CallsTo(inv, "issue_add_comment")) = 0

\* The invocation posted through the standard add-comment call.
PostedPublic(inv) ==
    /\ Len(CallsTo(inv, "issue_add_comment")) = 1
    /\ Len(CallsTo(inv, "post")) = 0

\* The text the invocation has to post: what the preprocessor returned for a
\* non-empty comment (the comment itself if it raised), the empty text otherwise.
ConvertedText(inv) ==
    IF inv.comment = "" THEN ""
    ELSE IF inv.conv.kind = "return" THEN inv.conv.value
    ELSE inv.comment

\* The client's response is a dict the mapping of lines 115-120 accepts.
ResponseMaps(inv) == inv.resp.kind = "dict" /\ inv.resp.author.kind # "null"

InternalPayload(inv) ==
    [body |-> ConvertedText(inv),
     properties |-> << [key |-> "sd.public.comment", value |-> [internal |-> TRUE]] >>]

\* One jira.post to <resource_url("issue")>/<issue_key>/comment with the
\* internal payload, and no issue_add_comment.
InternalShape(inv) ==
    /\ Len(CallsTo(inv, "post")) = 1
    /\ Len(CallsTo(inv, "issue_add_comment")) = 0
    /\ CallsTo(inv, "post")[1].arg
         = << <<resource_url("issue"), "/", inv.issue_key, "/comment">>,
              InternalPayload(inv) >>

\* One jira.issue_add_comment(issue_key, converted text), and no jira.post.
PublicShape(inv) ==
    /\ Len(CallsTo(inv, "issue_add_comment")) = 1
    /\ Len(CallsTo(inv, "post")) = 0
    /\ CallsTo(inv, "issue_add_comment")[1].arg = <<inv.issue_key, ConvertedText(inv)>>

C3_DefaultPublic ==
    (last.called /\ ~last.force /\ last.visibility.isNone) => PublicShape(last)

\* C3 witness: flag off, no visibility, a converted non-empty comment.
C3_Witness ==
    /\ last.called /\ ~last.force /\ last.visibility.isNone
    /\ last.comment # "" /\ last.conv.kind = "return"
    /\ Len(CallsTo(last, "issue_add_comment")) = 1

\* C4: flag not set: every letter-case variant of 'internal' posts an internal
\* comment via jira.post, every letter-case variant of 'public' posts a public
\* comment via jira.issue_add_comment.
C4_CaseInsensitive ==
    (last.called /\ ~last.force /\ ~last.visibility.isNone)
        => /\ last.visibility.s \in CaseVariants(INTERNAL) => PostedInternal(last)
           /\ last.visibility.s \in CaseVariants(PUBLIC) => PostedPublic(last)

\* C4 witness: flag off, a mixed-case 'internal'.
C4_Witness ==
    /\ last.called /\ ~last.force
    /\ last.visibility = StrVis(<<"I","n","T","e","R","n","A","l">>)
    /\ Len(CallsTo(last, "post")) = 1

\* The visibility is a string that is no letter-case variant of 'internal' or
\* 'public'.
Unrecognised(visibility) ==
    /\ ~visibility.isNone
    /\ visibility.s \notin CaseVariants(INTERNAL) \cup CaseVariants(PUBLIC)

ResolvedInternal(inv) ==
    \/ inv.force
    \/ ~inv.visibility.isNone /\ inv.visibility.s \notin CaseVariants(PUBLIC)

\* C6: an internal comment is one jira.post to
\* <resource_url("issue")>/<issue_key>/comment whose payload has the converted
\* text as body and exactly the property sd.public.comment = {internal: true};
\* a public comment is one jira.issue_add_comment(issue_key, converted text)
\* and no jira.post.
C6_PostingShape ==
    last.called =>
        IF ResolvedInternal(last) THEN InternalShape(last) ELSE PublicShape(last)

\* C6 witness: an internal and converted comment posted for explicit 'internal'.
C6_Witness ==
    /\ last.called /\ ~last.force
    /\ last.visibility = StrVis(INTERNAL)
    /\ last.comment # "" /\ last.conv.kind = "return"
    /\ Len(CallsTo(last, "post")) = 1

(***************************************************************************)
(* Claims on _parse_time_spent                                             *)
(***************************************************************************)
\* The seconds of one unit, as the specification states them.
UnitSeconds(unit) ==
    CASE unit = "w" -> 604800
      [] unit = "d" -> 86400
      [] unit = "h" -> 3600
      [] unit = "m" -> 60

\* The sum over all components of value x unit seconds.
RECURSIVE SumOf(_)
SumOf(comps) ==
    IF comps = <<>> THEN 0
    ELSE comps[1].value * UnitSeconds(comps[1].unit) + SumOf(Tail(comps))

Returns(t, n) == (pc = "done" /\ time_spent.s = t) => parsed = IntResult(n)

\* C7: a duration string built from <integer><unit> components (units w, d,
\* h, m) with nonzero total parses to the sum of value x unit seconds over
\* all components, in whatever order they come and with a repeated unit
\* summed: '1w 2d 3h 4m' = 788640, '1h 30m' = 5400, '1h 1h' = 7200.
C7_DurationSum ==
    /\ (pc = "done" /\ time_spent.built /\ SumOf(time_spent.comps) # 0)
           => parsed = IntResult(SumOf(time_spent.comps))
    /\ Returns(<<"1","w"," ","2","d"," ","3","h"," ","4","m">>, 788640)
    /\ Returns(<<"4","m"," ","3","h"," ","2","d"," ","1","w">>, 788640)
    /\ Returns(<<"1","h"," ","3","0","m">>, 5400)
    /\ Returns(<<"3","0","m"," ","1","h">>, 5400)
    /\ Returns(<<"1","h"," ","1","h">>, 7200)

\* C7 witness: a unit given twice, next to another unit, has been summed.
C7_Witness ==
    /\ pc = "done" /\ time_spent.built
    /\ time_spent.comps = << Component(1, "h"), Component(2, "m"), Component(1, "h") >>
    /\ parsed.val = 7320

\* Nothing in the string can be parsed: no integer before a final 's', no
\* <integer><unit> component, no numeric reading.
NothingParses(t) ==
    /\ ~(t # <<>> /\ t[Len(t)] = "s" /\ PyInt(SubSeq(t, 1, Len(t) - 1)).ok)
    /\ \A i \in 1..Len(t) : ~(IsDigit(t[i]) /\ i < Len(t) /\ t[i + 1] \in Units)
    /\ ~PyFloat(t).ok

\* C8: _parse_time_spent is total, it returns an integer for every input
\* string ('inf', 'nan' and '1e999' included) and never propagates an
\* exception; when nothing in the string can be parsed it returns 60.
C8_TotalWithDefault ==
    pc = "done" =>
        /\ parsed.kind \in {"int", "bigint", "hugeint"}
        /\ NothingParses(time_spent.s) => parsed = IntResult(60)

\* C9: a string ending in 's' whose prefix parses as an integer returns that
\* integer ('60s' = 60, '3600s' = 3600); when the prefix does not parse as an
\* integer the result is what the unit scan, numeric fallback and default
\* yield for the whole string.
C9_SecondsSuffix ==
    (pc = "done" /\ time_spent.s # <<>> /\ time_spent.s[Len(time_spent.s)] = "s")
        => LET prefix == SubSeq(time_spent.s, 1, Len(time_spent.s) - 1)
           IN /\ (prefix # <<>> /\ \A i \in 1..Len(prefix) : IsDigit(prefix[i]))
                     => parsed = IntResult(DecVal(prefix))
              /\ PyInt(prefix).ok => parsed = IntResult(PyInt(prefix).val)
              /\ ~PyInt(prefix).ok => parsed = unit_scan(time_spent.s)

\* C9 witness: '3600s' returned 3600.
C9_Witness ==
    /\ pc = "done"
    /\ time_spent.s = <<"3","6","0","0","s">>
    /\ parsed = IntResult(3600)

\* C10: a duration string whose components sum to 0 ('0h', '0w 0d') returns
\* 60, not 0; a bare '0' and '0s' return 0.
C10_ZeroDuration ==
    /\ (pc = "done" /\ time_spent.built /\ SumOf(time_spent.comps) = 0)
           => parsed = IntResult(60)
    /\ Returns(<<"0","h">>, 60)
    /\ Returns(<<"0","w"," ","0","d">>, 60)
    /\ Returns(<<"0">>, 0)
    /\ Returns(<<"0","s">>, 0)

\* C10 witness: '0w 0d', built from two zero components, returned 60.
C10_Witness ==
    /\ pc = "done" /\ time_spent.built
    /\ time_spent.comps = << Component(0, "w"), Component(0, "d") >>
    /\ parsed = IntResult(60)

(***************************************************************************)
(* The numeric fallback                                                    *)
(***************************************************************************)
IsDigitString(t) == t # <<>> /\ \A i \in 1..Len(t) : IsDigit(t[i])

\* A decimal string: an optional minus sign, then digits with one point among
\* them ('90.7', '-90.7', '90.', '.7').
DecimalBody(t) == IF IsNegative(t) THEN Tail(t) ELSE t
DecimalPoint(t) == FirstIndex(DecimalBody(t), {"."}, 1)
DecimalWhole(t) == SubSeq(DecimalBody(t), 1, DecimalPoint(t) - 1)
DecimalFraction(t) ==
    SubSeq(DecimalBody(t), DecimalPoint(t) + 1, Len(DecimalBody(t)))
IsDecimalString(t) ==
    /\ DecimalPoint(t) <= Len(DecimalBody(t))
    /\ DecimalWhole(t) \o DecimalFraction(t) # <<>>
    /\ \A i \in 1..Len(DecimalBody(t)) :
           i # DecimalPoint(t) => IsDigit(DecimalBody(t)[i])

\* The number of digits of t from its first nonzero digit on.
SignificantDigits(t) ==
    Len(StripZeros(DigitVals(DecimalWhole(t) \o DecimalFraction(t))))

\* The integer (-1)^neg * ds as a result of the parser.
IntegerResult(neg, ds) ==
    LET n == StripZeros(DigitVals(ds))
    IN IF Len(n) > 9 THEN BigIntResult(neg, n)
       ELSE IntResult(IF neg THEN 0 - NumVal(n) ELSE NumVal(n))

\* C11 as stated: a bare integer string N returns N ('60' = 60, '3600' =
\* 3600) and a decimal string returns its value truncated toward zero
\* ('90.7' = 90), whatever the number of digits.
C11_NumericFallback ==
    (pc = "done" /\ parsed.kind # "hugeint") =>
        /\ IsDigitString(time_spent.s)
               => parsed = IntegerResult(FALSE, time_spent.s)
        /\ IsDecimalString(time_spent.s)
               => parsed = IntegerResult(IsNegative(time_spent.s),
                                         DecimalWhole(time_spent.s))

\* C11: a bare integer string N of at most 15 digits returns N ('60' = 60,
\* '3600' = 3600), and a decimal string of at most 15 significant digits
\* returns its value truncated toward zero ('90.7' = 90, '-90.7' = -90).
C11_ExactNumericFallback ==
    /\ pc = "done" =>
        /\ (IsDigitString(time_spent.s) /\ Len(time_spent.s) <= 15)
               => parsed = IntegerResult(FALSE, time_spent.s)
        /\ (IsDecimalString(time_spent.s) /\ SignificantDigits(time_spent.s) <= 15)
               => parsed = IntegerResult(IsNegative(time_spent.s),
                                         DecimalWhole(time_spent.s))
    /\ Returns(<<"6","0">>, 60)
    /\ Returns(<<"3","6","0","0">>, 3600)
    /\ Returns(<<"9","0",".","7">>, 90)
    /\ Returns(<<"-","9","0",".","7">>, 0 - 90)

\* C11 witness: a decimal string just below an integer of fourteen digits has
\* been truncated to that integer.
C11_Witness ==
    /\ pc = "done"
    /\ time_spent.s = <<"9","9","9","9","9","9","9","9","9","9","9","9","9","9",".","9">>
    /\ parsed = BigIntResult(FALSE, <<9,9,9,9,9,9,9,9,9,9,9,9,9,9>>)

(***************************************************************************)
(* What the unit scan leaves out, and the sign of the result               *)
(***************************************************************************)
\* The first position of the run of digits that ends just before position j
\* (j itself when no digit stands there).
RunStart(t, j) ==
    CHOOSE i \in 1..j : /\ \A k \in i..(j - 1) : IsDigit(t[k])
                        /\ (i = 1 \/ ~IsDigit(t[i - 1]))

\* The <integer><unit> components of a string are its unit letters that stand
\* right after a digit, each with the whole run of digits before it.  The sum
\* of value x unit seconds over the components that end at position j or later.
RECURSIVE ComponentSumFrom(_, _)
ComponentSumFrom(t, j) ==
    IF j > Len(t) THEN 0
    ELSE (IF j > 1 /\ t[j] \in Units /\ IsDigit(t[j - 1])
          THEN DecVal(SubSeq(t, RunStart(t, j), j - 1)) * UnitSeconds(t[j])
          ELSE 0) + ComponentSumFrom(t, j + 1)
ComponentSum(t) == ComponentSumFrom(t, 1)

\* C21: unmatched characters are silently ignored by the unit scan: when a
\* string contains at least one <integer><unit> component with nonzero total,
\* every character outside those components (letters, bare numbers without a
\* unit, punctuation, a trailing seconds component whose prefix is not an
\* integer) contributes nothing to the result: '1h xyz' = 3600,
\* '1h 30' = 3600 and '1h 30s' = 3600.
C21_UnmatchedIgnored ==
    /\ (pc = "done" /\ ComponentSum(time_spent.s) # 0)
           => parsed = IntResult(ComponentSum(time_spent.s))
    /\ (pc = "done" /\ time_spent.comps # <<>> /\ SumOf(time_spent.comps) # 0)
           => parsed = IntResult(SumOf(time_spent.comps))
    /\ Returns(<<"1","h"," ","x","y","z">>, 3600)
    /\ Returns(<<"1","h"," ","3","0">>, 3600)
    /\ Returns(<<"1","h"," ","3","0","s">>, 3600)

\* C21 witness: '1.1h 30 2m 30s', two components with a decimal prefix, a
\* bare number and a seconds component around them, returned 3720.
C21_Witness ==
    /\ pc = "done"
    /\ time_spent = Padded(<<"1",".">>, << Component(1, "h"), Component(2, "m") >>,
                           <<" ","3","0"," ">>, <<" ","3","0","s">>)
    /\ time_spent.s = <<"1",".","1","h"," ","3","0"," ","2","m"," ","3","0","s">>
    /\ parsed = IntResult(3720)

\* C22: _parse_time_spent returns a non-negative number of seconds for every
\* input string: no input (a leading minus sign included, '-5s' or '-5')
\* yields a negative duration.
C22_NonNegative ==
    pc = "done" =>
        /\ parsed.kind = "int" => parsed.val >= 0
        /\ parsed.kind \in {"bigint", "hugeint"} => ~parsed.neg

(***************************************************************************)
(* The read operations of Jira                                             *)
(***************************************************************************)
\* The records of the response of the invocation.
Items(inv) == inv.env.resp.value.items

\* C12: for every limit value and every response with n comments,
\* get_issue_comments returns at most limit comments; when n > limit it
\* returns exactly the first limit comments of the response, and in all cases
\* the returned records keep the response order.
C12_LimitTruncation ==
    (invoked.op = "get_issue_comments" /\ invoked.outcome.kind = "return") =>
        LET limit == invoked.args.limit
            value == invoked.outcome.value
        IN /\ Len(value) <= limit
           /\ Len(Items(invoked)) > limit =>
                  value = [i \in 1..limit |-> processed_comment(Items(invoked)[i])]
           /\ Len(value) <= Len(Items(invoked))
           /\ \A i \in 1..Len(value) :
                  value[i] = processed_comment(Items(invoked)[i])

\* The response is a dict whose records may lack fields but have no null author.
LacksFieldsOnly(inv) ==
    /\ inv.env.resp.kind = "ok"
    /\ inv.env.resp.value.kind = "dict"
    /\ \A i \in 1..Len(Items(inv)) : Items(inv)[i].author.kind # "null"
NoDisplayName(author) ==
    author.kind = "missing" \/ (author.kind = "dict" /\ author.displayName = MISSING)

\* C13: an API record that lacks a field is mapped to a record with the
\* default in its place and the call does not fail.  Comments: a missing body
\* gives '', a missing author, an empty author object or an author without
\* displayName gives 'Unknown'.  Worklogs (get_worklogs): a missing comment
\* gives '', a missing timeSpent '', a missing timeSpentSeconds 0, a missing
\* author 'Unknown'.
C13_MissingFieldDefaults ==
    /\ (invoked.op = "get_issue_comments" /\ LacksFieldsOnly(invoked)) =>
           /\ invoked.outcome.kind = "return"
           /\ \A i \in 1..Len(invoked.outcome.value) :
                  LET comment == Items(invoked)[i]
                      record == invoked.outcome.value[i]
                  IN /\ comment.body = MISSING => record.body = ""
                     /\ NoDisplayName(comment.author) => record.author = "Unknown"
                     /\ comment.author.kind = "dict" /\ comment.author.displayName # MISSING
                            => record.author = comment.author.displayName
    /\ (invoked.op = "get_worklogs" /\ LacksFieldsOnly(invoked)) =>
           /\ invoked.outcome.kind = "return"
           /\ Len(invoked.outcome.value) = Len(Items(invoked))
           /\ \A i \in 1..Len(invoked.outcome.value) :
                  LET worklog == Items(invoked)[i]
                      record == invoked.outcome.value[i]
                  IN /\ worklog.comment = MISSING => record.comment = ""
                     /\ worklog.timeSpent = MISSING => record.timeSpent = ""
                     /\ worklog.timeSpentSeconds = <<>> => record.timeSpentSeconds = 0
                     /\ NoDisplayName(worklog.author) => record.author = "Unknown"

\* C13 witness: a worklog that lacks every field has been mapped to the
\* defaults.
C13_Witness ==
    /\ invoked.op = "get_worklogs"
    /\ invoked.outcome.kind = "return"
    /\ Items(invoked) = << WorklogJson(MISSING, MISSING, MISSING, MISSING, MISSING,
                                      MISSING, <<>>, AuthorMissing) >>
    /\ invoked.outcome.value[1].comment = ""
    /\ invoked.outcome.value[1].timeSpent = ""
    /\ invoked.outcome.value[1].timeSpentSeconds = 0
    /\ invoked.outcome.value[1].author = "Unknown"

(***************************************************************************)
(* Failures of the requests                                                *)
(***************************************************************************)
\* An HTTPError whose response has status 401 or 403.
IsAuthError(e) == e.type = "HTTPError" /\ e.status \in {401, 403}
\* The request whose behaviour is r was made and raised such an error.
AuthFailed(r) == r.kind = "err" /\ IsAuthError(r.value)
\* The request whose behaviour is r was made and raised another exception.
OtherwiseFailed(r) == r.kind = "err" /\ ~IsAuthError(r.value)

\* A request of the invocation of a page operation raised an HTTPError with
\* status 401 or 403.
AuthFailure(inv) ==
    CASE inv.op \in {"get_page_content", "get_page_ancestors"} -> AuthFailed(inv.env.resp)
      [] inv.op = "create_page" ->
             inv.env.convOk /\ (AuthFailed(inv.env.created) \/ AuthFailed(inv.env.resp))
      [] inv.op = "update_page" ->
             inv.env.convOk /\ (AuthFailed(inv.env.updated) \/ AuthFailed(inv.env.resp))
      [] OTHER -> FALSE

\* C14: for each page operation that reports failure by raising
\* (get_page_content, get_page_ancestors, create_page, update_page), an
\* HTTPError with status 401 or 403 coming from the client reaches the caller
\* as MCPAtlassianAuthenticationError, not as a generic Exception.
C14_AuthErrorsClassified ==
    AuthFailure(invoked) =>
        /\ invoked.outcome.kind = "raise"
        /\ invoked.outcome.value.type = "MCPAtlassianAuthenticationError"

\* A step of the invocation of a best-effort lookup failed, and not with an
\* HTTPError of status 401 or 403.
LookupFailure(inv) ==
    CASE inv.op = "get_page_ancestors" -> OtherwiseFailed(inv.env.resp)
      [] inv.op = "get_page_children" ->
             \/ OtherwiseFailed(inv.env.resp)
             \/ /\ inv.env.resp.kind = "ok" /\ ~inv.env.procOk
                /\ inv.args.convert_to_markdown
                /\ \E i \in 1..Len(inv.env.resp.value) :
                       inv.env.resp.value[i].body \notin {MISSING, ""}
      [] inv.op = "get_page_by_title" ->
             \/ OtherwiseFailed(inv.env.spaces)
             \/ OtherwiseFailed(inv.env.resp)
             \/ /\ inv.env.resp.kind = "ok"
                /\ \/ inv.env.resp.value.kind # "dict"
                   \/ inv.env.resp.value.body = MISSING
                   \/ ~inv.env.procOk
      [] OTHER -> FALSE

\* C15: for get_page_ancestors, get_page_children and get_page_by_title, every
\* failure other than a 401/403 authentication error (an HTTPError with
\* another status such as 404 or 500 included) is swallowed and the call
\* returns an empty list (ancestors, children) or None (title search).
C15_BestEffortSwallows ==
    LookupFailure(invoked) => invoked.outcome = Return(<<>>)

\* C16: every failure inside get_issue_comments, add_comment and get_worklogs,
\* an exception from the client or a client return value that is not a dict,
\* is re-raised as an Exception whose message is the operation prefix ('Error
\* getting comments: ', 'Error adding comment: ', 'Error getting worklogs: ')
\* followed by the original message, with the original exception as its
\* cause; no partial or default result is returned.
C16_FailuresWrapped ==
    /\ invoked.op \in {"get_issue_comments", "get_worklogs"} =>
           LET prefix == IF invoked.op = "get_issue_comments"
                         THEN "Error getting comments: "
                         ELSE "Error getting worklogs: "
               resp == invoked.env.resp
               raised == invoked.outcome.value
           IN /\ resp.kind = "err" =>
                     /\ invoked.outcome.kind = "raise"
                     /\ raised.type = "Exception"
                     /\ raised.msg = << prefix >> \o resp.value.msg
                     /\ raised.cause = << resp.value >>
              /\ (resp.kind = "ok" /\ resp.value.kind # "dict") =>
                     /\ invoked.outcome.kind = "raise"
                     /\ raised.type = "Exception"
                     /\ Len(raised.cause) = 1
                     /\ raised.cause[1].type = "TypeError"
                     /\ raised.msg = << prefix >> \o raised.cause[1].msg
    /\ invoked.op = "add_comment" =>
           /\ invoked.env.resp.kind = "raise" =>
                  /\ invoked.outcome.kind = "raise"
                  /\ invoked.outcome.msg = <<"Error adding comment: ", invoked.env.resp.exc>>
                  /\ invoked.outcome.cause = invoked.env.resp.exc
           /\ invoked.env.resp.kind = "nondict" =>
                  /\ invoked.outcome.kind = "raise"
                  /\ invoked.outcome.msg = <<"Error adding comment: ", invoked.outcome.cause>>

\* C16 witness: get_worklogs has re-raised the 'API Error' of the client.
C16_Witness ==
    /\ invoked.op = "get_worklogs"
    /\ invoked.env.resp = Err(Exc("Exception", <<"API Error">>))
    /\ invoked.outcome.kind = "raise"
    /\ invoked.outcome.value.msg = <<"Error getting worklogs: ", "API Error">>

(***************************************************************************)
(* Requests per invocation                                                 *)
(***************************************************************************)
\* The methods of the API clients (self.jira, self.confluence) that send a
\* request.
RequestFns ==
    { "post", "issue_add_comment", "issue_get_comments", "issue_get_worklog",
      "worklog", "get_page_by_id", "get_page_ancestors", "get_all_spaces",
      "get_page_by_title", "get_all_pages_from_space", "create_page",
      "update_page", "get_page_child_by_type" }
Requests(inv) == SelectSeq(inv.calls, LAMBDA c : c.fn \in RequestFns)
RequestFnsOf(inv) == [i \in 1..Len(Requests(inv)) |-> Requests(inv)[i].fn]

\* C17 as stated: every public operation of the mixins issues exactly one
\* request to the underlying API client per invocation, get_page_by_title,
\* create_page and update_page included.
C17_SingleRequest ==
    invoked.op # "none" => Len(Requests(invoked)) = 1

\* C17: every public operation issues at most two requests per invocation.
\* The Jira operations, get_page_content, get_page_ancestors,
\* get_page_children and get_space_pages issue exactly one.
\* get_page_by_title issues get_all_spaces and then, only when that succeeded
\* and lists the space, get_page_by_title.  create_page and update_page issue
\* none when the markdown conversion fails, otherwise the write request and
\* then, only when it succeeded (create_page: with a non-empty id), one
\* get_page_by_id.
C17_RequestsPerOperation ==
    LET fns == RequestFnsOf(invoked)
        env == invoked.env
    IN CASE invoked.op = "none" -> TRUE
         [] invoked.op = "add_comment" ->
                fns \in { <<"post">>, <<"issue_add_comment">> }
         [] invoked.op = "get_issue_comments" -> fns = <<"issue_get_comments">>
         [] invoked.op = "get_worklogs" -> fns = <<"issue_get_worklog">>
         [] invoked.op \in {"get_worklog", "get_worklog_models"} -> fns = <<"worklog">>
         [] invoked.op = "get_page_content" -> fns = <<"get_page_by_id">>
         [] invoked.op = "get_page_ancestors" -> fns = <<"get_page_ancestors">>
         [] invoked.op = "get_page_children" -> fns = <<"get_page_child_by_type">>
         [] invoked.op = "get_space_pages" -> fns = <<"get_all_pages_from_space">>
         [] invoked.op = "get_page_by_title" ->
                IF env.spaces.kind = "ok"
                   /\ \E i \in 1..Len(env.spaces.value) :
                          env.spaces.value[i] = invoked.args.space_key
                THEN fns = <<"get_all_spaces", "get_page_by_title">>
                ELSE fns = <<"get_all_spaces">>
         [] invoked.op = "create_page" ->
                IF ~env.convOk THEN fns = <<>>
                ELSE IF env.created.kind = "ok" /\ env.created.value.kind = "dict"
                        /\ env.created.value.id \notin {MISSING, NONE, ""}
                THEN fns = <<"create_page", "get_page_by_id">>
                ELSE fns = <<"create_page">>
         [] invoked.op = "update_page" ->
                IF ~env.convOk THEN fns = <<>>
                ELSE IF env.updated.kind = "ok"
                THEN fns = <<"update_page", "get_page_by_id">>
                ELSE fns = <<"update_page">>

\* C17 witness: create_page has written the page and read it back.
C17_Witness ==
    /\ invoked.op = "create_page"
    /\ RequestFnsOf(invoked) = <<"create_page", "get_page_by_id">>
    /\ invoked.outcome.kind = "return"

(***************************************************************************)
(* The empty comment                                                       *)
(***************************************************************************)
\* C18: for an empty comment text, add_comment does not invoke the
\* preprocessor's markdown_to_jira at all and posts the empty string as the
\* comment body, through whichever posting path the visibility resolution
\* selects.
C18_EmptyComment ==
    (last.called /\ last.comment = "") =>
        /\ CallsTo(last, "markdown_to_jira") = <<>>
        /\ IF should_be_internal(last.force, last.visibility)
           THEN /\ PostedInternal(last)
                /\ CallsTo(last, "post")[1].arg[2].body = ""
           ELSE /\ PostedPublic(last)
                /\ CallsTo(last, "issue_add_comment")[1].arg[2] = ""

\* C18 witness: an empty comment has been posted as an internal comment.
C18_Witness ==
    /\ last.called /\ last.comment = ""
    /\ last.visibility = StrVis(INTERNAL)
    /\ Len(CallsTo(last, "post")) = 1
    /\ CallsTo(last, "post")[1].arg[2].body = ""

(***************************************************************************)
(* The fields of a comment record                                          *)
(***************************************************************************)
\* The comment records the invocation returned.
CommentRecords(inv) ==
    IF inv.op = "get_issue_comments" /\ inv.outcome.kind = "return"
    THEN { inv.outcome.value[i] : i \in 1..Len(inv.outcome.value) }
    ELSE IF inv.op = "add_comment" /\ inv.outcome.kind = "return"
    THEN { inv.outcome.value }
    ELSE {}

\* C19 as stated: every comment record produced by get_issue_comments and
\* add_comment carries id, body, created and updated timestamps, author
\* display name, and a visibility value that is either public or internal.
C19_CommentFields ==
    \A record \in CommentRecords(invoked) :
        /\ {"id", "body", "created", "updated", "author", "visibility"}
               \subseteq DOMAIN record
        /\ record.visibility \in {"public", "internal"}

\* C19: every record of get_issue_comments carries exactly id, body, created,
\* updated and author (the display name), and the result of add_comment
\* exactly id, body, created and author; neither carries a visibility.
C19_CommentFieldsReturned ==
    \A record \in CommentRecords(invoked) :
        IF invoked.op = "get_issue_comments"
        THEN DOMAIN record = {"id", "body", "created", "updated", "author"}
        ELSE DOMAIN record = {"id", "body", "created", "author"}

\* C19 witness: get_issue_comments has returned two records.
C19_Witness ==
    /\ invoked.op = "get_issue_comments"
    /\ invoked.outcome.kind = "return"
    /\ Len(invoked.outcome.value) = 2
    /\ invoked.outcome.value[2].updated = parse_date_str(SomeDate)

(***************************************************************************)
(* The order of the ancestors                                              *)
(***************************************************************************)
\* C20: get_page_ancestors returns one page model per ancestor reported by
\* the client, in hierarchical order with the immediate parent first and the
\* root ancestor last; it neither drops, duplicates nor reorders entries.
C20_AncestorsParentFirst ==
    (invoked.op = "get_page_ancestors" /\ invoked.env.resp.kind = "ok") =>
        LET n == Len(invoked.env.resp.value)
        IN invoked.outcome =
               Return([i \in 1..n |-> ConfluencePage(Ancestry(n)[i], FALSE, "", "view")])

(***************************************************************************)
(* add_comment when the preprocessor fails                                 *)
(***************************************************************************)
\* C23: if the text preprocessor raises while converting a non-empty comment
\* from Markdown to Jira markup, add_comment does not fail: the original
\* unconverted text is used as the comment body and the comment is still
\* posted through the path chosen by the visibility resolution.
C23_ConversionFailureFallsBack ==
    (last.called /\ last.comment # "" /\ last.conv.kind = "raise") =>
        /\ Len(CallsTo(last, "markdown_to_jira")) = 1
        /\ IF ResolvedInternal(last)
           THEN /\ PostedInternal(last)
                /\ CallsTo(last, "post")[1].arg[2].body = last.comment
           ELSE /\ PostedPublic(last)
                /\ CallsTo(last, "issue_add_comment")[1].arg[2] = last.comment
        /\ ResponseMaps(last) => last.outcome.kind = "return"
        /\ last.outcome.kind = "raise" => last.outcome.cause # ConvRaise.value

\* C23 witness: the preprocessor raised, the Markdown text went out unchanged
\* through the standard call and the created comment was returned.
C23_Witness ==
    /\ last.called /\ ~last.force /\ last.visibility = NoneVis
    /\ last.comment = "Test **comment**" /\ last.conv = ConvRaise
    /\ CallsTo(last, "issue_add_comment")
         = << [fn |-> "issue_add_comment", arg |-> <<last.issue_key, "Test **comment**">>] >>
    /\ last.outcome.kind = "return"

(***************************************************************************)
(* Sequences of add_comment calls                                          *)
(***************************************************************************)
Creating == {"post", "issue_add_comment"}
\* The creating requests among the functions an invocation called.
CreatingRequests(fns) == SelectSeq(fns, LAMBDA f : f \in Creating)

\* The number of creating requests of the first k invocations.
RECURSIVE TotalCreating(_)
TotalCreating(k) ==
    IF k = 0 THEN 0
    ELSE Len(CreatingRequests(history[k].fns)) + TotalCreating(k - 1)

\* C24: each add_comment call issues at most one comment-creating request,
\* and a call that returns normally issued exactly one: either jira.post or
\* jira.issue_add_comment, never both and never the same one twice.  Over any
\* sequence of calls the number of creating requests equals the number of
\* calls that reached the posting step (every call does: nothing before the
\* posting step raises), and the Markdown conversion of a call always
\* happens before its creating request.
C24_OneCreatingRequest ==
    /\ \A k \in 1..Len(history) :
          LET fns == history[k].fns
          IN /\ Len(CreatingRequests(fns)) <= 1
             /\ ~history[k].raised => Len(CreatingRequests(fns)) = 1
             /\ \A i, j \in 1..Len(fns) :
                   (fns[i] = "markdown_to_jira" /\ fns[j] \in Creating) => i < j
    /\ TotalCreating(Len(history)) = Len(history)

\* C24 witness: two calls, the first converted and posted internally, the
\* second posted the standard way: two creating requests in all.
C24_Witness ==
    /\ Len(history) = 2
    /\ history[1].fns = <<"markdown_to_jira", "resource_url", "post">>
    /\ history[2].fns = <<"issue_add_comment">>
    /\ ~history[1].raised /\ ~history[2].raised
    /\ TotalCreating(2) = 2

\* C25: when add_comment raises, no comment was created on the issue: there
\* is no execution in which the creating request (jira.post or
\* jira.issue_add_comment) completed successfully and add_comment then
\* reports 'Error adding comment' to the caller.
C25_RaiseMeansNotCreated ==
    \A k \in 1..Len(history) : history[k].raised => ~history[k].completed

\* C29: no operation writes config.force_internal_comments, and the posting
\* path chosen by add_comment is a function of the pair (force flag,
\* visibility) alone: two calls of a sequence with the same flag and
\* visibility choose the same path, whatever their issue keys, comment
\* texts, outcomes and order.
C29_PathFromFlagAndVisibility ==
    /\ [](\A i, j \in 1..Len(history) :
            (/\ history[i].force = history[j].force
             /\ history[i].visibility = history[j].visibility)
                => CreatingRequests(history[i].fns) = CreatingRequests(history[j].fns))
    /\ [][history' # history => force' = force]_vars

\* C29 witness: after a failed call with one issue key and a non-empty text,
\* a call with the same flag and visibility, another key and the empty text
\* returned; both went through jira.post.
C29_Witness ==
    /\ Len(history) = 2
    /\ history[1].force = history[2].force
    /\ history[1].visibility = StrVis(<<"p","r","i","v","a","t","e">>)
    /\ history[2].visibility = history[1].visibility
    /\ history[1].issue_key # history[2].issue_key
    /\ history[1].comment # "" /\ history[2].comment = ""
    /\ history[1].raised /\ ~history[2].raised
    /\ CreatingRequests(history[1].fns) = <<"post">>
    /\ CreatingRequests(history[2].fns) = <<"post">>

(***************************************************************************)
(* The write operations of Confluence                                      *)
(***************************************************************************)
\* The write request and the read-back of the invocation, as positions in
\* its requests (0: not issued).
PositionOf(inv, fn) ==
    IF \E i \in 1..Len(inv.calls) : inv.calls[i].fn = fn
    THEN CHOOSE i \in 1..Len(inv.calls) : inv.calls[i].fn = fn
    ELSE 0

\* The write request is the first request, and a read-back, if there is one,
\* is the second and last.
WriteThenFetch(inv, write) ==
    /\ Len(inv.calls) <= 2
    /\ Len(inv.calls) >= 1 => inv.calls[1].fn = write
    /\ Len(inv.calls) = 2 => inv.calls[2].fn = "get_page_by_id"

\* The operation returned the model of the page the read-back fetched.
ReturnsFetched(inv) ==
    /\ PositionOf(inv, "get_page_by_id") = 2
    /\ inv.env.resp.kind = "ok"
    /\ inv.outcome.value.id = inv.env.resp.value.id
    /\ inv.outcome.value.title = inv.env.resp.value.title
    /\ inv.outcome.value.content = "markdown(" \o inv.env.resp.value.body \o ")"

\* C26: create_page first creates the page with representation 'storage'
\* (the body converted by the preprocessor when is_markdown is true, passed
\* through unchanged otherwise) and only afterwards fetches the page by the
\* id in the create response; if the create response contains no id (no
\* 'id' key, or a null or empty id), no fetch is issued and the call raises
\* 'Failed to create page ...'.  The fetch never precedes the create request,
\* and the returned model is the fetched page.
C26_CreateThenFetch ==
    invoked.op = "create_page" =>
        LET created == invoked.env.created
            requested == PositionOf(invoked, "create_page") = 1
            raised == invoked.outcome.value
        IN /\ WriteThenFetch(invoked, "create_page")
           /\ requested =>
                  /\ invoked.calls[1].arg[5] = "storage"
                  /\ invoked.calls[1].arg[3]
                       = IF invoked.args.is_markdown THEN "storage(# Hello)"
                         ELSE "# Hello"
           /\ Len(invoked.calls) = 2 =>
                  /\ created.kind = "ok"
                  /\ invoked.calls[2].arg[1] = created.value.id
           /\ (requested /\ created.kind = "ok"
                 /\ created.value.id \in {MISSING, NONE, ""}) =>
                  /\ Len(invoked.calls) = 1
                  /\ invoked.outcome.kind = "raise"
                  /\ raised.type = "Exception"
                  /\ raised.msg[1] = "Failed to create page '"
           /\ invoked.outcome.kind = "return" => ReturnsFetched(invoked)

\* C26 witness: a markdown page was created under a parent, fetched by the
\* id of the create response and returned as fetched.
C26_Witness ==
    /\ invoked.op = "create_page"
    /\ invoked.args.is_markdown /\ invoked.args.parent_id = "456"
    /\ Len(invoked.calls) = 2
    /\ invoked.calls[1].fn = "create_page"
    /\ invoked.calls[1].arg = <<"TEST", "New Page", "storage(# Hello)", "456", "storage">>
    /\ invoked.calls[2].fn = "get_page_by_id"
    /\ invoked.calls[2].arg[1] = "123"
    /\ invoked.outcome.kind = "return"
    /\ invoked.outcome.value.title = "Test Page"

\* C27: update_page issues the client update (always with always_update
\* true, type 'page', representation 'storage', and a parent_id argument
\* only when a non-empty parent_id was given) before re-fetching the page,
\* and returns the re-fetched page; if update_page raises 'Failed to update
\* page ...', the update request was not applied: there is no execution in
\* which the client update succeeds and update_page still reports failure.
C27_UpdateThenFetch ==
    invoked.op = "update_page" =>
        LET requested == PositionOf(invoked, "update_page") = 1
            kwargs == invoked.calls[1].arg[1]
        IN /\ WriteThenFetch(invoked, "update_page")
           /\ requested =>
                  /\ kwargs.always_update = TRUE
                  /\ kwargs.type = "page"
                  /\ kwargs.representation = "storage"
                  /\ kwargs.parent_id
                       = IF invoked.args.parent_id \in {NONE, ""} THEN <<>>
                         ELSE << invoked.args.parent_id >>
           /\ invoked.outcome.kind = "return" => ReturnsFetched(invoked)
           /\ invoked.outcome.kind = "raise" =>
                  ~(requested /\ invoked.env.updated.kind = "ok")

(***************************************************************************)
(* Failures of the worklog requests                                        *)
(***************************************************************************)
\* C28: get_worklog never raises: any exception from the client's worklog
\* call is swallowed and {'worklogs': []} is returned, so get_worklog_models
\* returns an empty list in that case; get_worklogs never swallows a client
\* failure and always raises the wrapped error for the same failure.
C28_WorklogFailures ==
    /\ invoked.op = "get_worklog" =>
           /\ invoked.outcome.kind = "return"
           /\ invoked.env.resp.kind = "err" =>
                  invoked.outcome.value = [kind |-> "dict", has |-> TRUE, items |-> <<>>]
    /\ invoked.op = "get_worklog_models" =>
           /\ invoked.outcome.kind = "return"
           /\ invoked.env.resp.kind = "err" => invoked.outcome.value = <<>>
    /\ (invoked.op = "get_worklogs" /\ invoked.env.resp.kind = "err") =>
           /\ invoked.outcome.kind = "raise"
           /\ invoked.outcome.value.type = "Exception"
           /\ invoked.outcome.value.msg
                = <<"Error getting worklogs: ">> \o invoked.env.resp.value.msg
           /\ invoked.outcome.value.cause = << invoked.env.resp.value >>

\* C28 witness: for a connection error of the client, get_worklog returned
\* the empty worklog dict.
C28_Witness ==
    /\ invoked.op = "get_worklog"
    /\ invoked.env.resp = Err(Exc("ConnectionError", <<"Connection refused">>))
    /\ invoked.calls = << [fn |-> "worklog", arg |-> <<"TEST-123">>] >>
    /\ invoked.outcome = Return(ListDict(<<>>))

====
